---- MODULE Spec2Model ----
(***************************************************************************)
(* Batch label verification of kennyu/ttb-label-verify: the scheduler that *)
(* runs one work unit per label group under a semaphore, the two-pass      *)
(* extraction of each unit, the validators and the status resolution, and  *)
(* the event stream that carries each finished result to the client.       *)
(***************************************************************************)
EXTENDS Integers, Sequences, FiniteSets, TLC

\* ------------------------------------------------------------------ bounds

\* MAX_BATCH_SIZE of the service (100 in the source), scaled down so that a
\* batch larger than the maximum is within reach of the check.
MaxBatch == 3

\* The capacity of the semaphore (Semaphore(10) in the source, "a tunable
\* starting point"), scaled down so that batches larger than it are checked.
Ceiling == 2

\* ------------------------------------------------------------- data model

BeverageTypes == {"spirits", "beer", "wine"}

RequestTypes == BeverageTypes \cup {"auto"}

FieldNames ==
  {"brand_name", "class_type", "alcohol_content", "net_contents",
   "name_address", "government_warning"}

\* OverallStatus of the result models; RETRY is declared and never produced.
OverallStatuses == {"PASS", "FAIL", "ESCALATE", "RETRY", "ERROR"}

\* No value: the provider returned nothing readable for the field.
NoValue == "<none>"

\* What the extraction reports for a field that is not on the label at all.
Absent == "<absent>"

Groups == 1..(MaxBatch + 1)

Range(s) == {s[i] : i \in DOMAIN s}

Min(a, b) == IF a <= b THEN a ELSE b

\* ---------------------------------------------------------- field rule set

\* The required fields of each beverage type, in the order of the tables.
RequiredOrder(t) ==
  CASE t = "spirits" -> <<"brand_name", "class_type", "alcohol_content",
                          "net_contents", "name_address", "government_warning">>
    [] t = "beer"    -> <<"brand_name", "class_type", "net_contents",
                          "name_address", "government_warning">>
    [] t = "wine"    -> <<"brand_name", "class_type", "alcohol_content",
                          "net_contents", "name_address", "government_warning">>
    [] OTHER         -> <<"brand_name", "class_type", "net_contents",
                          "name_address", "government_warning">>

RequiredFields(t) == Range(RequiredOrder(t))

\* The conditional fields of each beverage type, in the order of the tables:
\* the country of origin, required for imported products only.
ConditionalOrder(t) ==
  IF t \in BeverageTypes THEN <<"country_of_origin">> ELSE <<>>

ConditionalNames == {"country_of_origin"}

\* ------------------------------------------------ government warning rule

\* A text is a sequence of one-character strings.
CanonicalWarning ==
  <<"G", "O", "V", "E", "R", "N", "M", "E", "N", "T", " ", "W", "A", "R", "N",
    "I", "N", "G", ":", " ", "(", "1", ")", " ", "A", "c", "c", "o", "r", "d",
    "i", "n", "g", " ", "t", "o", " ", "t", "h", "e", " ", "S", "u", "r", "g",
    "e", "o", "n", " ", "G", "e", "n", "e", "r", "a", "l", ",", " ", "w", "o",
    "m", "e", "n", " ", "s", "h", "o", "u", "l", "d", " ", "n", "o", "t", " ",
    "d", "r", "i", "n", "k", " ", "a", "l", "c", "o", "h", "o", "l", "i", "c",
    " ", "b", "e", "v", "e", "r", "a", "g", "e", "s", " ", "d", "u", "r", "i",
    "n", "g", " ", "p", "r", "e", "g", "n", "a", "n", "c", "y", " ", "b", "e",
    "c", "a", "u", "s", "e", " ", "o", "f", " ", "t", "h", "e", " ", "r", "i",
    "s", "k", " ", "o", "f", " ", "b", "i", "r", "t", "h", " ", "d", "e", "f",
    "e", "c", "t", "s", ".", " ", "(", "2", ")", " ", "C", "o", "n", "s", "u",
    "m", "p", "t", "i", "o", "n", " ", "o", "f", " ", "a", "l", "c", "o", "h",
    "o", "l", "i", "c", " ", "b", "e", "v", "e", "r", "a", "g", "e", "s", " ",
    "i", "m", "p", "a", "i", "r", "s", " ", "y", "o", "u", "r", " ", "a", "b",
    "i", "l", "i", "t", "y", " ", "t", "o", " ", "d", "r", "i", "v", "e", " ",
    "a", " ", "c", "a", "r", " ", "o", "r", " ", "o", "p", "e", "r", "a", "t",
    "e", " ", "m", "a", "c", "h", "i", "n", "e", "r", "y", ",", " ", "a", "n",
    "d", " ", "m", "a", "y", " ", "c", "a", "u", "s", "e", " ", "h", "e", "a",
    "l", "t", "h", " ", "p", "r", "o", "b", "l", "e", "m", "s", ".">>

LowerCase ==
  <<"a", "b", "c", "d", "e", "f", "g", "h", "i", "j", "k", "l", "m",
    "n", "o", "p", "q", "r", "s", "t", "u", "v", "w", "x", "y", "z">>

UpperCase ==
  <<"A", "B", "C", "D", "E", "F", "G", "H", "I", "J", "K", "L", "M",
    "N", "O", "P", "Q", "R", "S", "T", "U", "V", "W", "X", "Y", "Z">>

IsLower(c) == \E i \in DOMAIN LowerCase : LowerCase[i] = c

IsUpper(c) == \E i \in DOMAIN UpperCase : UpperCase[i] = c

ToLower(c) ==
  IF IsUpper(c) THEN LowerCase[CHOOSE i \in DOMAIN UpperCase : UpperCase[i] = c]
  ELSE c

ToUpper(c) ==
  IF IsLower(c) THEN UpperCase[CHOOSE i \in DOMAIN LowerCase : LowerCase[i] = c]
  ELSE c

FlipCase(c) == IF IsUpper(c) THEN ToLower(c) ELSE ToUpper(c)

Whitespace == {" ", "\n", "\t"}

IsSpace(c) == c \in Whitespace

\* Whitespace/newline normalisation and the split into words: runs of
\* whitespace separate words, leading and trailing whitespace is dropped.
\* The first position from i on that holds (or does not hold) whitespace,
\* Len(text) + 1 when there is none.
FirstFrom(text, i, space) ==
  CHOOSE j \in i..(Len(text) + 1) :
    /\ j = Len(text) + 1 \/ IsSpace(text[j]) = space
    /\ \A k \in i..(j - 1) : IsSpace(text[k]) # space

RECURSIVE SplitWords(_, _, _)
SplitWords(text, i, cur) ==
  LET start == FirstFrom(text, i, FALSE)
      stop  == FirstFrom(text, start, TRUE)
  IN  IF start > Len(text) THEN cur
      ELSE SplitWords(text, stop, Append(cur, SubSeq(text, start, stop - 1)))

Words(text) == SplitWords(text, 1, <<>>)

CanonicalWords == Words(CanonicalWarning)

\* Heading must be exactly GOVERNMENT WARNING: (all caps).
HeadingExact(ws) ==
  /\ Len(ws) >= 2
  /\ ws[1] = <<"G", "O", "V", "E", "R", "N", "M", "E", "N", "T">>
  /\ ws[2] = <<"W", "A", "R", "N", "I", "N", "G", ":">>

\* Clauses (1) and (2) must exist in order.
ClausesInOrder(ws) ==
  \E i, j \in DOMAIN ws :
    /\ i < j
    /\ ws[i] = <<"(", "1", ")">>
    /\ ws[j] = <<"(", "2", ")">>

\* The comparison of one word with the word of the canonical text.
WordMatchesFolded(w, c) ==
  /\ Len(w) = Len(c)
  /\ \A i \in DOMAIN w : ToLower(w[i]) = ToLower(c[i])

WordMatches(w, c) == w = c

\* Word-level comparison with the canonical statement.
WordsMatch(ws) ==
  /\ Len(ws) = Len(CanonicalWords)
  /\ \A i \in DOMAIN ws : WordMatches(ws[i], CanonicalWords[i])

\* The field status of an extracted warning text: pass or fail, nothing else.
WarningStatus(text) ==
  LET ws == Words(text)
  IN  IF HeadingExact(ws) /\ ClausesInOrder(ws) /\ WordsMatch(ws)
      THEN "pass" ELSE "fail"

\* --- the inputs of the matcher: the canonical text and its mutations

\* The clause (2) moved in front of clause (1).
ClauseOneAt == CHOOSE i \in DOMAIN CanonicalWarning :
  /\ CanonicalWarning[i] = "(" /\ CanonicalWarning[i + 1] = "1"

ClauseTwoAt == CHOOSE i \in DOMAIN CanonicalWarning :
  /\ CanonicalWarning[i] = "(" /\ CanonicalWarning[i + 1] = "2"

SwapClauses ==
  SubSeq(CanonicalWarning, 1, ClauseOneAt - 1)
    \o SubSeq(CanonicalWarning, ClauseTwoAt, Len(CanonicalWarning))
    \o <<" ">>
    \o SubSeq(CanonicalWarning, ClauseOneAt, ClauseTwoAt - 2)

\* A mutation puts in the other case of a letter, another letter, a
\* punctuation mark or a whitespace character.
Insertions == {"x", " "}

Mutations ==
  [kind : {"none", "swap_clauses"}, pos : {0}, ch : {""}]
    \cup { [kind |-> "subst", pos |-> i, ch |-> r] :
             i \in DOMAIN CanonicalWarning, r \in {"x", ".", " ", "\n", "^"} }
    \cup [kind : {"delete"}, pos : DOMAIN CanonicalWarning, ch : {""}]
    \cup [kind : {"insert"}, pos : 1..(Len(CanonicalWarning) + 1), ch : Insertions]
    \cup [kind : {"truncate"}, pos : 1..(Len(CanonicalWarning) - 1), ch : {""}]

\* "^" stands for the other case of the letter at the position.
SubstChar(m) ==
  IF m.ch = "^" THEN FlipCase(CanonicalWarning[m.pos]) ELSE m.ch

IsMutation(m) ==
  /\ m \in Mutations
  /\ m.kind = "subst" => SubstChar(m) # CanonicalWarning[m.pos]

ApplyMutation(m) ==
  LET t == CanonicalWarning
      n == Len(t)
  IN  CASE m.kind = "none"         -> t
        [] m.kind = "swap_clauses" -> SwapClauses
        [] m.kind = "subst"        ->
             [i \in 1..n |-> IF i = m.pos THEN SubstChar(m) ELSE t[i]]
        [] m.kind = "delete"       ->
             SubSeq(t, 1, m.pos - 1) \o SubSeq(t, m.pos + 1, n)
        [] m.kind = "insert"       ->
             SubSeq(t, 1, m.pos - 1) \o <<m.ch>> \o SubSeq(t, m.pos, n)
        [] m.kind = "truncate"     -> SubSeq(t, 1, m.pos)

\* ------------------------------------------------------ extracted values

\* The warning texts the provider returns in the pipeline, by name.
WarningTexts == {"warning:canonical", "warning:lowercase-heading"}

WarningText(v) ==
  IF v = "warning:canonical" THEN CanonicalWarning
  ELSE [i \in DOMAIN CanonicalWarning |->
          IF i \in 2..10 THEN ToLower(CanonicalWarning[i]) ELSE CanonicalWarning[i]]

\* The status of each of them, by the warning rule.
WarningStatusOf == [v \in WarningTexts |-> WarningStatus(WarningText(v))]

\* The class/type designations the validators know, by beverage type.
KnownDesignation(t) ==
  CASE t = "spirits" -> "Kentucky Straight Bourbon Whiskey"
    [] t = "beer"    -> "Lager"
    [] t = "wine"    -> "Table Wine"
    [] OTHER         -> NoValue

\* An informal synonym of a recognised designation.
SynonymDesignation == "Sour Mash"

\* The name and address of an importer.
ImporterAddress == "Imported by Old Tom Imports, New York, NY"

\* The values the provider can return for a field (NoValue apart).
FieldValues(f) ==
  CASE f = "brand_name"         -> {"OLD TOM"}
    [] f = "class_type"         -> {KnownDesignation(t) : t \in BeverageTypes}
                                     \cup {SynonymDesignation}
    [] f = "alcohol_content"    -> {"40% Alc./Vol.", "40% ABV"}
    [] f = "net_contents"       -> {"750 mL"}
    [] f = "name_address"       -> {"Bottled by Old Tom Distillery, Bardstown, KY"}
    [] f = "government_warning" -> WarningTexts
    [] f = "beverage_type"      -> BeverageTypes
    [] f = "country_of_origin"  -> {"Product of France"}

\* What one extraction call is asked for: the label fields and the beverage
\* type the provider reads off the label.
ExtractedNames == FieldNames \cup {"beverage_type"} \cup ConditionalNames

\* The rules with every non-compliant value a hard failure.
ClassifyStrict(f, v, t) ==
  CASE f = "government_warning" -> WarningStatusOf[v]
    [] f = "alcohol_content"    -> IF v = "40% ABV" THEN "fail" ELSE "pass"
    [] f = "class_type"         -> IF v = KnownDesignation(t) THEN "pass" ELSE "fail"
    [] OTHER                    -> "pass"

\* The rule of one field on a present value: pass, fail or escalate.
Classify(f, v, t) ==
  CASE f = "government_warning" -> WarningStatusOf[v]
    [] f = "alcohol_content"    -> IF v = "40% ABV" THEN "escalate" ELSE "pass"
    [] f = "class_type"         -> IF v = KnownDesignation(t) THEN "pass" ELSE "escalate"
    [] OTHER                    -> "pass"

\* ------------------------------------------------ beverage type resolution

\* Auto mode with a default type where nothing can be inferred.
InferTypeDefaulting(fields) ==
  IF fields["beverage_type"] \in BeverageTypes THEN fields["beverage_type"]
  ELSE IF \E t \in BeverageTypes : fields["class_type"] = KnownDesignation(t)
       THEN CHOOSE t \in BeverageTypes : fields["class_type"] = KnownDesignation(t)
       ELSE "spirits"

\* Auto mode: the extracted beverage type, else the class/type heuristics.
InferType(fields) ==
  IF fields["beverage_type"] \in BeverageTypes THEN fields["beverage_type"]
  ELSE IF \E t \in BeverageTypes : fields["class_type"] = KnownDesignation(t)
       THEN CHOOSE t \in BeverageTypes : fields["class_type"] = KnownDesignation(t)
       ELSE "undetermined"

\* What the label shows overrides the type the request names.
ResolveTypeFromLabel(requested, fields) ==
  IF requested = "auto" \/ InferType(fields) # "undetermined"
  THEN InferType(fields) ELSE requested

\* The requested type is used as it is unless it is auto.
ResolveType(requested, fields) ==
  IF requested = "auto" THEN InferType(fields) ELSE requested

\* ------------------------------------------------- extraction, two passes

\* The required fields a set of extracted values leaves without a value.
MissingFields(requested, fields) ==
  {f \in RequiredFields(ResolveType(requested, fields)) : fields[f] = NoValue}

NothingExtracted == [f \in ExtractedNames |-> NoValue]

\* The values of pass 2 alone: what pass 1 found is dropped.
MergePassesSecondOnly(first, second) ==
  [f \in ExtractedNames |-> IF f \in DOMAIN second THEN second[f] ELSE NoValue]

\* The values of pass 2 fill the fields pass 1 left without a value.
MergePasses(first, second) ==
  [f \in ExtractedNames |->
     IF first[f] = NoValue /\ f \in DOMAIN second THEN second[f] ELSE first[f]]

\* ------------------------------------------- validators and overall status

\* Every conditional field taken as required, whatever the label shows.
ConditionAlwaysHolds(f, fields) == TRUE

\* The predicate of a conditional field, on the values already extracted:
\* the country of origin is required when the address is an importer's.
ConditionHolds(f, fields) ==
  f = "country_of_origin" /\ fields["name_address"] = ImporterAddress

\* An absent field reported as one that could not be read.
FieldStatusAbsentUnreadable(f, v, t) ==
  IF v \in {NoValue, Absent} THEN "unreadable" ELSE Classify(f, v, t)

\* A field that could not be read is unreadable, a required field that is
\* absent from the label fails, a present value gets the verdict of its rule;
\* a conditional field without a value is absent when it is required.
FieldStatus(f, v, t) ==
  IF v = NoValue /\ f \notin ConditionalNames THEN "unreadable"
  ELSE IF v \in {NoValue, Absent} THEN "fail"
       ELSE Classify(f, v, t)

\* The plain-language reason a field result carries when it did not pass.
FailureReason(f, v, t) ==
  CASE v = NoValue /\ f \notin ConditionalNames -> "not found on any image after retry"
    [] v = NoValue /\ f \in ConditionalNames    -> "missing"
    [] v = Absent  -> "missing"
    [] OTHER       ->
         CASE Classify(f, v, t) = "fail"     -> "does not match the required text"
           [] Classify(f, v, t) = "escalate" -> "needs agent confirmation"
           [] OTHER                          -> ""

\* The fields the validators evaluate for a label: the required fields of
\* the type, then its conditional fields whose predicate holds.
EvaluatedOrder(fields, t) ==
  RequiredOrder(t) \o SelectSeq(ConditionalOrder(t), LAMBDA f : ConditionHolds(f, fields))

\* The validator set of the resolved type and the warning validator: one
\* field result per field evaluated, in the order of the rule table.
ValidateFields(fields, t) ==
  LET order == EvaluatedOrder(fields, t)
  IN  [i \in DOMAIN order |->
         [field_name     |-> order[i],
          status         |-> FieldStatus(order[i], fields[order[i]], t),
          failure_reason |-> FailureReason(order[i], fields[order[i]], t)]]

HasStatus(results, s) == \E i \in DOMAIN results : results[i].status = s

\* The retry shown as the status of a label with an unreadable field.
OverallWithRetry(results, t) ==
  IF HasStatus(results, "fail") THEN "FAIL"
  ELSE IF HasStatus(results, "unreadable") THEN "RETRY"
       ELSE IF HasStatus(results, "escalate") \/ t = "undetermined"
            THEN "ESCALATE"
            ELSE "PASS"

\* The overall status of a label whose extraction went through.
OverallOfFields(results, t) ==
  IF HasStatus(results, "fail") THEN "FAIL"
  ELSE IF \/ HasStatus(results, "unreadable")
          \/ HasStatus(results, "escalate")
          \/ t = "undetermined"
       THEN "ESCALATE"
       ELSE "PASS"

\* The overall status when the extraction is unavailable or fails.
ExtractionErrorStatus == "FAIL"

\* The overall status of an unexpected, unhandled failure of a work unit.
UnhandledFailureStatus == "ERROR"

\* An escalation reason that names no field.
EscalationReasonUnnamed(results, t) == {"needs agent review"}

\* The escalation reason names the fields that drive the escalation.
EscalationReason(results, t) ==
  {results[i].field_name : i \in {j \in DOMAIN results :
                                    results[j].status \in {"unreadable", "escalate"}}}
    \cup (IF t = "undetermined"
          THEN {"beverage type could not be determined"} ELSE {})

\* The result of a label whose extraction went through (steps d, e, f).
VerifiedResult(g, requested, fields) ==
  LET t       == ResolveType(requested, fields)
      results == ValidateFields(fields, t)
      overall == OverallOfFields(results, t)
  IN  [label_id          |-> g,
       overall_status    |-> overall,
       beverage_type     |-> t,
       fields            |-> results,
       escalation_reason |-> IF overall = "ESCALATE"
                             THEN EscalationReason(results, t) ELSE {}]

\* The result of a label whose work unit failed.
FailedResult(g, requested, status, why) ==
  [label_id          |-> g,
   overall_status    |-> status,
   beverage_type     |-> requested,
   fields            |-> <<>>,
   escalation_reason |-> {why}]

NoResult == [label_id |-> 0]

\* ----------------------------------------------------------------- state

VARIABLES
  batch,      \* "none", "rejected", "streaming", "closed", "abandoned"
  submitted,  \* the number of label groups of the submission
  total,      \* BatchProgress.total
  completed,  \* BatchProgress.completed
  requested,  \* the requested beverage type of each group
  unit,       \* the work unit of each group
  machine,    \* the extraction state machine of each group
  calls,      \* the prompt variants each group called the gateway with
  extracted,  \* the values extracted for each group so far
  passes,     \* the attempt records (ExtractionPass) of each group
  failure,    \* what failed in the work unit of each group, if anything
  result,     \* the LabelResult of each finished unit
  permits,    \* the free permits of the semaphore
  finished,   \* the finished units whose event is not yet emitted, in order
  events,     \* the events emitted on the stream, in order
  received,   \* what each unit was given: its images, the provider's answers
  snapshot    \* the final snapshot of the batch, kept for the export

vars ==
  <<batch, submitted, total, completed, requested, unit, machine, calls,
    extracted, passes, failure, result, permits, finished, events, received,
    snapshot>>

\* No snapshot is stored; the snapshot of a finished batch holds the result
\* of every event of its stream.
NoSnapshot == [stored |-> FALSE, results |-> <<>>]

FinalSnapshot(emitted) ==
  [stored |-> TRUE, results |-> [k \in DOMAIN emitted |-> emitted[k].result]]

NoBatch ==
  /\ batch = "none"
  /\ submitted = 0
  /\ total = 0
  /\ completed = 0
  /\ requested = [g \in Groups |-> "auto"]
  /\ unit = [g \in Groups |-> "none"]
  /\ machine = [g \in Groups |-> "NotStarted"]
  /\ calls = [g \in Groups |-> <<>>]
  /\ extracted = [g \in Groups |-> NothingExtracted]
  /\ passes = [g \in Groups |-> <<>>]
  /\ failure = [g \in Groups |-> "none"]
  /\ result = [g \in Groups |-> NoResult]
  /\ permits = Ceiling
  /\ finished = <<>>
  /\ events = <<>>
  /\ received = [g \in Groups |-> <<>>]
  /\ snapshot = NoSnapshot

\* ------------------------------------------------------------- submission

\* No upper limit on the batch size.
AcceptedAnySize(n) == 1 <= n

\* The batch size limit of the submission interface.
Accepted(n) == 1 <= n /\ n <= MaxBatch

\* POST /verify/batch: a rejected submission starts nothing; an accepted one
\* opens the stream and creates one task per label group.
Submit(n, req) ==
  /\ batch = "none"
  /\ submitted' = n
  /\ IF Accepted(n)
     THEN /\ batch' = "streaming"
          /\ total' = n
          /\ requested' = [g \in Groups |-> IF g <= n THEN req[g] ELSE requested[g]]
          /\ unit' = [g \in Groups |-> IF g <= n THEN "queued" ELSE unit[g]]
     ELSE /\ batch' = "rejected"
          /\ UNCHANGED <<total, requested, unit>>
  /\ UNCHANGED <<completed, machine, calls, extracted, passes, failure, result,
                 permits, finished, events,
                 received, snapshot>>

\* -------------------------------------------------------------- work unit

\* Acquire without the wait for a free permit.
AcquireUnbounded(g) ==
  /\ batch = "streaming"
  /\ unit[g] = "queued"
  /\ \A h \in Groups : h < g => unit[h] # "queued"
  /\ permits' = permits - 1
  /\ unit' = [unit EXCEPT ![g] = "loading"]
  /\ UNCHANGED <<snapshot, batch, submitted, total, completed, requested, machine, calls,
                 extracted, passes, failure, result, finished, events,
                 received>>

\* Admission that goes on after the consumer has gone.
AcquireWithoutConsumer(g) ==
  /\ batch \in {"streaming", "abandoned"}
  /\ unit[g] = "queued"
  /\ \A h \in Groups : h < g => unit[h] # "queued"
  /\ permits > 0
  /\ permits' = permits - 1
  /\ unit' = [unit EXCEPT ![g] = "loading"]
  /\ UNCHANGED <<snapshot, batch, submitted, total, completed, requested, machine, calls,
                 extracted, passes, failure, result, finished, events,
                 received>>

\* Fixed batching: a group is admitted only when every group of the windows
\* before its own has left the semaphore.
AcquireFixedWindow(g) ==
  /\ batch = "streaming"
  /\ unit[g] = "queued"
  /\ \A h \in Groups : h < g => unit[h] # "queued"
  /\ \A h \in Groups :
       (h - 1) \div Ceiling < (g - 1) \div Ceiling =>
         unit[h] \notin {"queued", "loading", "extracting"}
  /\ permits > 0
  /\ permits' = permits - 1
  /\ unit' = [unit EXCEPT ![g] = "loading"]
  /\ UNCHANGED <<snapshot, batch, submitted, total, completed, requested, machine, calls,
                 extracted, passes, failure, result, finished, events,
                 received>>

\* A task enters the semaphore: the longest waiting one, when a permit is free.
Acquire(g) ==
  /\ batch = "streaming"
  /\ unit[g] = "queued"
  /\ \A h \in Groups : h < g => unit[h] # "queued"
  /\ permits > 0
  /\ permits' = permits - 1
  /\ unit' = [unit EXCEPT ![g] = "loading"]
  /\ UNCHANGED <<snapshot, batch, submitted, total, completed, requested, machine, calls,
                 extracted, passes, failure, result, finished, events,
                 received>>

\* The end of a work unit: it returns its result and leaves the semaphore.
Finish(g, res) ==
  /\ unit' = [unit EXCEPT ![g] = "finished"]
  /\ result' = [result EXCEPT ![g] = res]
  /\ permits' = permits + 1
  /\ finished' = Append(finished, g)

\* An unexpected failure inside the unit, caught at the unit's boundary.
FinishUnhandled(g) ==
  Finish(g, FailedResult(g, requested[g], UnhandledFailureStatus, "processing error"))

\* A failure of the extraction makes every unit in flight end as cancelled.
FinishExtractionErrorCancelsOthers(g) ==
  LET hit == {h \in Groups : unit[h] \in {"loading", "extracting"}}
      inOrder == [i \in 1..Cardinality(hit) |->
                    CHOOSE h \in hit : Cardinality({x \in hit : x <= h}) = i]
  IN  /\ unit' = [h \in Groups |-> IF h \in hit THEN "finished" ELSE unit[h]]
      /\ result' = [h \in Groups |->
           IF h = g
           THEN FailedResult(g, requested[g], ExtractionErrorStatus, "extraction error")
           ELSE IF h \in hit
                THEN FailedResult(h, requested[h], UnhandledFailureStatus, "cancelled")
                ELSE result[h]]
      /\ permits' = permits + Cardinality(hit)
      /\ finished' = finished \o inOrder

\* A failure of the extraction call, caught at the unit's boundary.
FinishExtractionError(g) ==
  Finish(g, FailedResult(g, requested[g], ExtractionErrorStatus, "extraction error"))

\* Steps d, e, f; a malformed rule table of the resolved type is an
\* unexpected failure.
FinishVerified(g, fields, rulesOk) ==
  IF rulesOk
  THEN Finish(g, VerifiedResult(g, requested[g], fields))
  ELSE FinishUnhandled(g)

\* Step a: the image bytes are loaded; then the pass-1 call is issued.
LoadImages(g, found) ==
  /\ unit[g] = "loading"
  /\ IF found
     THEN /\ unit' = [unit EXCEPT ![g] = "extracting"]
          /\ machine' = [machine EXCEPT ![g] = "Pass1"]
          /\ calls' = [calls EXCEPT ![g] = <<"standard">>]
          /\ UNCHANGED <<failure, result, permits, finished>>
     ELSE /\ failure' = [failure EXCEPT ![g] = "Unhandled"]
          /\ FinishUnhandled(g)
          /\ UNCHANGED <<machine, calls>>
  /\ received' = [received EXCEPT ![g] = Append(@, [images |-> found])]
  /\ UNCHANGED <<snapshot, batch, submitted, total, completed, requested, extracted,
                 passes, events>>

\* Pass 2 is needed when pass 1 left a required field without a value.
NeedsRetry(requested_type, fields) == MissingFields(requested_type, fields) # {}

\* One attempt record of the extraction.
ExtractionPass(n, requested_type, response, fields) ==
  [pass     |-> n,
   returned |-> {f \in DOMAIN response.values : response.values[f] # NoValue},
   missing  |-> MissingFields(requested_type, fields)]

\* A provider failure sent on to pass 2 as if nothing had been readable.
AfterPass1RetryOnError(requested_type, response) ==
  IF response.raised \/ NeedsRetry(requested_type, response.values) THEN "Pass2"
  ELSE "Complete"

\* Pass 2 after every pass 1 that returned.
AfterPass1AlwaysRetry(requested_type, response) ==
  IF response.raised THEN "Error" ELSE "Pass2"

\* No retry: pass 1 with a field missing goes straight to Residual.
AfterPass1NoRetry(requested_type, response) ==
  IF response.raised THEN "Error"
  ELSE IF NeedsRetry(requested_type, response.values) THEN "Residual"
       ELSE "Complete"

\* Where the state machine goes when the pass-1 call is over: a provider
\* failure is not retried; step c retries when unreadable fields exist.
AfterPass1(requested_type, response) ==
  IF response.raised THEN "Error"
  ELSE IF NeedsRetry(requested_type, response.values) THEN "Pass2"
       ELSE "Complete"

\* Where it goes when the pass-2 call is over.
AfterPass2(requested_type, merged, response) ==
  IF response.raised THEN "Error"
  ELSE IF MissingFields(requested_type, merged) = {} THEN "Complete"
       ELSE "Residual"

\* What went wrong in the unit when a gateway call is over.
FailureOf(response, verified, rulesOk) ==
  IF response.raised THEN "ProviderError"
  ELSE IF verified /\ ~rulesOk THEN "Unhandled"
       ELSE "none"

\* Step b returns, then step c.
Pass1Return(g, response, rulesOk) ==
  /\ unit[g] = "extracting"
  /\ machine[g] = "Pass1"
  /\ LET next == AfterPass1(requested[g], response)
     IN  /\ machine' = [machine EXCEPT ![g] = next]
         /\ failure' = [failure EXCEPT ![g] = FailureOf(response, next = "Complete", rulesOk)]
         /\ CASE next = "Error" ->
                   /\ FinishExtractionError(g)
                   /\ UNCHANGED <<calls, extracted, passes>>
              [] next = "Pass2" ->
                   /\ extracted' = [extracted EXCEPT ![g] = response.values]
                   /\ passes' = [passes EXCEPT ![g] =
                        Append(@, ExtractionPass(1, requested[g], response, response.values))]
                   /\ calls' = [calls EXCEPT ![g] = Append(@, "degraded-image-specialized")]
                   /\ UNCHANGED <<unit, result, permits, finished>>
              [] OTHER ->
                   /\ extracted' = [extracted EXCEPT ![g] = response.values]
                   /\ passes' = [passes EXCEPT ![g] =
                        Append(@, ExtractionPass(1, requested[g], response, response.values))]
                   /\ FinishVerified(g, response.values, rulesOk)
                   /\ UNCHANGED calls
  /\ received' = [received EXCEPT ![g] = Append(@, response)]
  /\ UNCHANGED <<snapshot, batch, submitted, total, completed, requested, events>>

\* The pass-2 call returns.
Pass2Return(g, response, rulesOk) ==
  /\ unit[g] = "extracting"
  /\ machine[g] = "Pass2"
  /\ LET merged == MergePasses(extracted[g], response.values)
         next   == AfterPass2(requested[g], merged, response)
     IN  /\ machine' = [machine EXCEPT ![g] = next]
         /\ failure' = [failure EXCEPT ![g] = FailureOf(response, TRUE, rulesOk)]
         /\ IF next = "Error"
            THEN /\ FinishExtractionError(g)
                 /\ UNCHANGED <<extracted, passes>>
            ELSE /\ extracted' = [extracted EXCEPT ![g] = merged]
                 /\ passes' = [passes EXCEPT ![g] =
                      Append(@, ExtractionPass(2, requested[g], response, merged))]
                 /\ FinishVerified(g, merged, rulesOk)
  /\ received' = [received EXCEPT ![g] = Append(@, response)]
  /\ UNCHANGED <<snapshot, batch, submitted, total, completed, requested, calls, events>>

\* --------------------------------------------------------- result stream

\* Emit with the counter read before it is incremented.
EmitStaleCount ==
  /\ batch = "streaming"
  /\ finished # <<>>
  /\ LET g == Head(finished)
     IN  /\ completed' = completed + 1
         /\ events' = Append(events, [batch_id  |-> "batch",
                                      completed |-> completed,
                                      total     |-> total,
                                      result    |-> result[g]])
         /\ unit' = [unit EXCEPT ![g] = "emitted"]
  /\ finished' = Tail(finished)
  /\ UNCHANGED <<snapshot, batch, submitted, total, requested, machine, calls, extracted,
                 passes, failure, result, permits,
                 received>>

\* Two units that finished together read the counter before either
\* increment is written: their events carry the same count.
EmitLostUpdate ==
  /\ batch = "streaming"
  /\ finished # <<>>
  /\ LET both == IF Len(finished) >= 2 THEN SubSeq(finished, 1, 2)
                 ELSE <<Head(finished)>>
     IN  /\ completed' = completed + 1
         /\ events' = events \o [i \in DOMAIN both |->
                                   [batch_id  |-> "batch",
                                    completed |-> completed + 1,
                                    total     |-> total,
                                    result    |-> result[both[i]]]]
         /\ unit' = [g \in Groups |-> IF g \in Range(both) THEN "emitted" ELSE unit[g]]
         /\ finished' = SubSeq(finished, Len(both) + 1, Len(finished))
  /\ UNCHANGED <<snapshot, batch, submitted, total, requested, machine, calls, extracted,
                 passes, failure, result, permits,
                 received>>

\* Emission in submission order: the event of a finished unit waits for
\* the events of all groups submitted before it.
EmitInSubmissionOrder ==
  /\ batch = "streaming"
  /\ \E i \in DOMAIN finished : finished[i] = completed + 1
  /\ LET g == completed + 1
     IN  /\ completed' = completed + 1
         /\ events' = Append(events, [batch_id  |-> "batch",
                                      completed |-> completed + 1,
                                      total     |-> total,
                                      result    |-> result[g]])
         /\ unit' = [unit EXCEPT ![g] = "emitted"]
         /\ finished' = SelectSeq(finished, LAMBDA x : x # g)
  /\ UNCHANGED <<snapshot, batch, submitted, total, requested, machine, calls, extracted,
                 passes, failure, result, permits,
                 received>>

\* Emit that also stores the results emitted so far as the snapshot.
EmitStoresSnapshot ==
  /\ batch = "streaming"
  /\ finished # <<>>
  /\ LET g == Head(finished)
         event == [batch_id  |-> "batch",
                   completed |-> completed + 1,
                   total     |-> total,
                   result    |-> result[g]]
     IN  /\ completed' = completed + 1
         /\ events' = Append(events, event)
         /\ snapshot' = FinalSnapshot(Append(events, event))
         /\ unit' = [unit EXCEPT ![g] = "emitted"]
  /\ finished' = Tail(finished)
  /\ UNCHANGED <<batch, submitted, total, requested, machine, calls, extracted,
                 passes, failure, result, permits,
                 received>>

\* The streamer takes the next finished unit, counts it and emits its event.
Emit ==
  /\ batch = "streaming"
  /\ finished # <<>>
  /\ LET g == Head(finished)
     IN  /\ completed' = completed + 1
         /\ events' = Append(events, [batch_id  |-> "batch",
                                      completed |-> completed + 1,
                                      total     |-> total,
                                      result    |-> result[g]])
         /\ unit' = [unit EXCEPT ![g] = "emitted"]
  /\ finished' = Tail(finished)
  /\ UNCHANGED <<snapshot, batch, submitted, total, requested, machine, calls, extracted,
                 passes, failure, result, permits,
                 received>>

\* The end marker sent while results are still outstanding.
CloseEarly ==
  /\ batch = "streaming"
  /\ batch' = "closed"
  /\ snapshot' = FinalSnapshot(events)
  /\ UNCHANGED <<submitted, total, completed, requested, unit, machine, calls,
                 extracted, passes, failure, result, permits, finished, events,
                 received>>

\* After the event with completed = total the final snapshot of the batch
\* is stored and the stream sends its end marker.
Close ==
  /\ batch = "streaming"
  /\ completed = total
  /\ batch' = "closed"
  /\ snapshot' = FinalSnapshot(events)
  /\ UNCHANGED <<submitted, total, completed, requested, unit, machine, calls,
                 extracted, passes, failure, result, permits, finished, events,
                 received>>

\* The consumer abandons the stream, for instance by closing the connection.
Abandon ==
  /\ batch = "streaming"
  /\ batch' = "abandoned"
  /\ UNCHANGED <<submitted, total, completed, requested, unit, machine, calls,
                 extracted, passes, failure, result, permits, finished, events,
                 received, snapshot>>

\* The result of a unit that finished for a consumer that has gone is dropped.
Discard ==
  /\ batch = "abandoned"
  /\ finished # <<>>
  /\ unit' = [unit EXCEPT ![Head(finished)] = "discarded"]
  /\ finished' = Tail(finished)
  /\ UNCHANGED <<snapshot, batch, submitted, total, completed, requested, machine, calls,
                 extracted, passes, failure, result, permits, events, received>>

\* ------------------------------------------------- warning rule, applied

VARIABLES
  mutation,        \* the mutation of the canonical text the label carries
  warningResult    \* the field status the warning validator gave it

warningVars == <<mutation, warningResult>>

WarningIdle ==
  /\ mutation = [kind |-> "none", pos |-> 0, ch |-> ""]
  /\ warningResult = "unchecked"

\* The government warning validator runs on the extracted text.
ValidateWarning ==
  /\ warningResult = "unchecked"
  /\ warningResult' = WarningStatus(ApplyMutation(mutation))
  /\ UNCHANGED mutation

\* ------------------------------------------- the decoding of the stream

\* The text of a stream is a sequence of tokens: the line feed, the field
\* name "data: ", the name of another field, the text "done", and the
\* tokens of the JSON text of an event, one of them a character of two
\* bytes. On the wire the stream is the sequence of the bytes of its text.
LF == "\n"

DataPrefix == "data: "

OtherField == "event: result"

DoneText == "done"

LeadByte == "0xC3"

TrailByte == "0xA9"

TwoByteChar == "U+00E9"

JsonText(k) == <<"{", ToString(k), TwoByteChar, "}">>

JsonBytes(k) == <<"{", ToString(k), LeadByte, TrailByte, "}">>

\* JSON.parse of the text of an event.
Parse(payload) == CHOOSE k \in 1..(MaxBatch + 1) : JsonText(k) = payload

\* What the server writes for the k-th event of a stream and for its end,
\* with or without a line that names the event.
Frame(k, named) ==
  (IF named THEN <<OtherField, LF>> ELSE <<>>)
    \o <<DataPrefix>> \o JsonBytes(k) \o <<LF, LF>>

DoneFrame(named) ==
  (IF named THEN <<OtherField, LF>> ELSE <<>>) \o <<DataPrefix, DoneText, LF, LF>>

RECURSIVE Frames(_, _)
Frames(n, named) ==
  IF n = 0 THEN <<>> ELSE Frames(n - 1, named) \o Frame(n, named)

FullText(n, named) == Frames(n, named) \o DoneFrame(named)

\* The length of the longest stream.
MaxText == Len(FullText(MaxBatch, TRUE))

\* The streams read: those of 0 to MaxBatch events, whole or cut anywhere.
Wires ==
  {[events |-> n, named |-> named, text |-> SubSeq(FullText(n, named), 1, len)] :
     <<n, named, len>> \in
       {x \in (0..MaxBatch) \X BOOLEAN \X (0..MaxText) :
          x[3] <= Len(FullText(x[1], x[2]))}}

VARIABLES
  wire,            \* the stream: its events, its style and its bytes
  readPos,         \* the bytes read so far
  pending,         \* the bytes the decoder holds for the next chunk
  buffer,          \* the text decoded and not yet split off
  applied,         \* the events applied to the client state, in order
  readerDone       \* the read loop has ended

decodeVars == <<wire, readPos, pending, buffer, applied, readerDone>>

DecodeIdle ==
  /\ wire = [events |-> 0, named |-> FALSE, text |-> <<>>]
  /\ readPos = 0
  /\ pending = <<>>
  /\ buffer = <<>>
  /\ applied = <<>>
  /\ readerDone = FALSE

\* decoder.decode(value, { stream: true }): the characters of the bytes,
\* and the first byte of a character of two held back when the second has
\* not been read.
Held(bytes) ==
  IF bytes # <<>> /\ bytes[Len(bytes)] = LeadByte THEN <<LeadByte>> ELSE <<>>

RECURSIVE Characters(_)
Characters(bytes) ==
  IF bytes = <<>> THEN <<>>
  ELSE IF Len(bytes) >= 2 /\ bytes[1] = LeadByte /\ bytes[2] = TrailByte
       THEN <<TwoByteChar>> \o Characters(Tail(Tail(bytes)))
       ELSE <<Head(bytes)>> \o Characters(Tail(bytes))

Decoded(bytes) == Characters(SubSeq(bytes, 1, Len(bytes) - Len(Held(bytes))))

\* text.split(sep) for a separator of one or two line feeds.
RECURSIVE SplitLF(_, _, _, _)
SplitLF(text, width, i, cur) ==
  IF i > Len(text) THEN <<cur>>
  ELSE IF /\ i + width - 1 <= Len(text)
          /\ \A j \in i..(i + width - 1) : text[j] = LF
       THEN <<cur>> \o SplitLF(text, width, i + width, <<>>)
       ELSE SplitLF(text, width, i + 1, Append(cur, text[i]))

Blocks(text) == SplitLF(text, 2, 1, <<>>)

\* The parts without the last one.
Complete(parts) == SubSeq(parts, 1, Len(parts) - 1)

\* A reader that keeps nothing of a chunk for the next.
RemainderDropped(parts) == <<>>

\* parts.pop(): the text after the last separator.
Remainder(parts) == parts[Len(parts)]

\* The events of a sequence of blocks: of each block the first of its lines
\* that starts with "data: ", if it has one and its payload is not "done".
RECURSIVE EventsOf(_)
EventsOf(blocks) ==
  IF blocks = <<>> THEN <<>>
  ELSE LET dataLines == SelectSeq(SplitLF(Head(blocks), 1, 1, <<>>),
                                  LAMBDA ln : ln # <<>> /\ Head(ln) = DataPrefix)
           payload   == Tail(Head(dataLines))
       IN  (IF dataLines = <<>> \/ payload = <<DoneText>> THEN <<>>
            ELSE <<Parse(payload)>>) \o EventsOf(Tail(blocks))

\* One turn of the read loop on a chunk of k bytes.
ReadChunk(k) ==
  /\ ~readerDone
  /\ readPos + k <= Len(wire.text)
  /\ LET bytes == pending \o SubSeq(wire.text, readPos + 1, readPos + k)
         parts == Blocks(buffer \o Decoded(bytes))
     IN  /\ pending' = Held(bytes)
         /\ buffer' = Remainder(parts)
         /\ applied' = applied \o EventsOf(Complete(parts))
  /\ readPos' = readPos + k
  /\ UNCHANGED <<wire, readerDone>>

\* The read that reports the end of the body: the loop ends.
ReadEnd ==
  /\ ~readerDone
  /\ readPos = Len(wire.text)
  /\ readerDone' = TRUE
  /\ UNCHANGED <<wire, readPos, pending, buffer, applied>>

\* ------------------------------------------------------------- the client

\* The most images a selection holds, and the most a label group holds.
MaxSelection == 3

MaxGroupImages == 3

\* The images uploaded and the label groups created in one session.
MaxUploads == 4

MaxCreated == 4

VARIABLES
  uploaded,        \* the uploaded images, by id, in the order of upload
  selectedIds,     \* the ids of the selected images
  groups,          \* the label groups of the batch, in the order of creation
  imageCount,      \* the images uploaded so far (the next id)
  labelCount,      \* the label groups created so far (the next label id)
  clientResults,   \* the streamed results, the latest first
  batchId,         \* the batch id of the latest event
  shownCompleted,  \* "completed of total processed"
  shownTotal,
  busy,            \* a verification is running
  error,           \* the error message shown
  sent,            \* the label groups of the request, as they were sent
  delivered,       \* the events of the stream the client has read
  markerSeen,      \* the client has read the end marker
  connection,      \* "none", "open", "ended", "reset"
  exported         \* what the export link returned when it was last followed

groupingVars == <<uploaded, selectedIds, groups, imageCount, labelCount>>

streamVars ==
  <<clientResults, batchId, shownCompleted, shownTotal, busy, sent, delivered,
    markerSeen, connection, exported>>

clientVars == <<groupingVars, error, streamVars, decodeVars>>

NothingExported == [status |-> "none", rows |-> <<>>]

ClientIdle ==
  /\ uploaded = <<>>
  /\ selectedIds = {}
  /\ groups = <<>>
  /\ imageCount = 0
  /\ labelCount = 0
  /\ clientResults = <<>>
  /\ batchId = ""
  /\ shownCompleted = 0
  /\ shownTotal = 0
  /\ busy = FALSE
  /\ error = ""
  /\ sent = <<>>
  /\ delivered = 0
  /\ markerSeen = FALSE
  /\ connection = "none"
  /\ exported = NothingExported

\* --- upload and grouping

GroupedIds == UNION {Range(groups[i].images) : i \in DOMAIN groups}

selectedImages == SelectSeq(uploaded, LAMBDA id : id \in selectedIds)

\* The pool as all the uploads, grouped or not.
poolImagesWithGrouped == uploaded

poolImages == SelectSeq(uploaded, LAMBDA id : id \notin GroupedIds)

\* uploadFiles: the images the server stored are added to the uploads; a
\* file of another type or a failed upload leaves an error message.
UploadFiles(k, ok) ==
  /\ imageCount + k <= MaxUploads
  /\ IF ok
     THEN /\ uploaded' = uploaded \o [i \in 1..k |-> imageCount + i]
          /\ imageCount' = imageCount + k
          /\ error' = ""
     ELSE /\ error' = "Upload failed"
          /\ UNCHANGED <<uploaded, imageCount>>
  /\ UNCHANGED <<selectedIds, groups, labelCount, streamVars>>

\* The selection without its limit.
ToggledUnlimited(prev, id) ==
  IF id \in prev THEN prev \ {id} ELSE prev \cup {id}

\* The selection after a click on an image.
Toggled(prev, id) ==
  IF id \in prev THEN prev \ {id}
  ELSE IF Cardinality(prev) >= MaxSelection THEN prev
       ELSE prev \cup {id}

\* toggleSelection, on an image of the pool.
ToggleSelection(id) ==
  /\ id \in Range(poolImages)
  /\ selectedIds' = Toggled(selectedIds, id)
  /\ UNCHANGED <<uploaded, groups, imageCount, labelCount, error, streamVars>>

\* A batch that is never taken as full.
BatchNeverFull(gs) == FALSE

\* The batch has reached the maximum number of label groups.
BatchFull(gs) == Len(gs) >= MaxBatch

LabelGroup(id, t, images) ==
  [label_id |-> id, beverage_type |-> t, images |-> images]

\* createGroup: the selected images become a label group.
CreateGroup(t) ==
  /\ IF Len(selectedImages) < 1 \/ Len(selectedImages) > MaxGroupImages
     THEN /\ error' = "Select 1 to 3 images to create a label group."
          /\ UNCHANGED <<groups, selectedIds, labelCount>>
     ELSE IF BatchFull(groups)
          THEN /\ error' = "Batch already has 100 labels."
               /\ UNCHANGED <<groups, selectedIds, labelCount>>
          ELSE /\ labelCount < MaxCreated
               /\ groups' = Append(groups, LabelGroup(labelCount + 1, t, selectedImages))
               /\ labelCount' = labelCount + 1
               /\ selectedIds' = {}
               /\ error' = ""
  /\ UNCHANGED <<uploaded, imageCount, streamVars>>

\* createSinglesFromPool: one group per image of the pool, as far as the
\* batch has room.
CreateSinglesFromPool(t) ==
  LET capacity == MaxBatch - Len(groups)
      target   == SubSeq(poolImages, 1, Min(Len(poolImages), capacity))
  IN  /\ IF Len(poolImages) = 0
         THEN /\ error' = "No ungrouped images available."
              /\ UNCHANGED <<groups, selectedIds, labelCount>>
         ELSE IF BatchFull(groups)
              THEN /\ error' = "Batch already has 100 labels."
                   /\ UNCHANGED <<groups, selectedIds, labelCount>>
              ELSE /\ labelCount + Len(target) <= MaxCreated
                   /\ groups' = groups \o [i \in DOMAIN target |->
                                            LabelGroup(labelCount + i, t, <<target[i]>>)]
                   /\ labelCount' = labelCount + Len(target)
                   /\ selectedIds' = {}
                   /\ error' = ""
      /\ UNCHANGED <<uploaded, imageCount, streamVars>>

\* removeGroup, on a group of the batch.
RemoveGroup(id) ==
  /\ \E i \in DOMAIN groups : groups[i].label_id = id
  /\ groups' = SelectSeq(groups, LAMBDA g : g.label_id # id)
  /\ UNCHANGED <<uploaded, selectedIds, imageCount, labelCount, error, streamVars>>

\* removeUngroupedImage, on an image of the pool.
RemoveUngroupedImage(id) ==
  /\ id \in Range(poolImages)
  /\ uploaded' = SelectSeq(uploaded, LAMBDA img : img # id)
  /\ selectedIds' = selectedIds \ {id}
  /\ UNCHANGED <<groups, imageCount, labelCount, error, streamVars>>

\* --- verification and the stream

\* The beverage types of the request, by the position of the group.
RequestOf(gs) ==
  [g \in Groups |-> IF g \in DOMAIN gs THEN gs[g].beverage_type ELSE "auto"]

\* The Verify button without its busy state.
CanStartWhileBusy == Len(groups) > 0

\* The Verify button is enabled.
CanStart == ~busy /\ Len(groups) > 0

\* startVerification with a request that fails or gets an answer that is
\* not OK without a batch having been started: the failure is shown and the
\* client is not busy any more.
VerificationRefused ==
  /\ CanStart
  /\ clientResults' = <<>>
  /\ batchId' = ""
  /\ shownCompleted' = 0
  /\ shownTotal' = Len(groups)
  /\ error' = "Verification failed"
  /\ busy' = FALSE
  /\ UNCHANGED <<groupingVars, sent, delivered, markerSeen, connection, exported>>

\* startVerification: the groups are posted as one batch; a rejected
\* request leaves an error message, an accepted one opens the stream.
StartVerification ==
  /\ CanStart
  /\ Submit(Len(groups), RequestOf(groups))
  /\ clientResults' = <<>>
  /\ batchId' = ""
  /\ shownCompleted' = 0
  /\ shownTotal' = Len(groups)
  /\ sent' = groups
  /\ delivered' = 0
  /\ markerSeen' = FALSE
  /\ IF Accepted(Len(groups))
     THEN busy' = TRUE /\ error' = "" /\ connection' = "open"
     ELSE busy' = FALSE /\ error' = "Verification failed" /\ connection' = "none"
  /\ UNCHANGED <<groupingVars, exported>>

\* An event as the client reads it: the result of the unit of the g-th group
\* of the request carries the label id the request gave that group.
OnWire(event) == [event EXCEPT !.result.label_id = sent[@].label_id]

\* The reading of an event that puts its result in the place of the list.
ReceiveEventReplacesResults ==
  /\ busy
  /\ connection = "open"
  /\ delivered < Len(events)
  /\ LET event == OnWire(events[delivered + 1])
     IN  /\ batchId' = event.batch_id
         /\ shownCompleted' = event.completed
         /\ shownTotal' = event.total
         /\ clientResults' = <<event.result>>
  /\ delivered' = delivered + 1
  /\ UNCHANGED <<groupingVars, error, busy, sent, markerSeen, connection, exported>>

\* The next event of the stream is read: progress and batch id are taken
\* from it and its result is put in front of the results.
ReceiveEvent ==
  /\ busy
  /\ connection = "open"
  /\ delivered < Len(events)
  /\ LET event == OnWire(events[delivered + 1])
     IN  /\ batchId' = event.batch_id
         /\ shownCompleted' = event.completed
         /\ shownTotal' = event.total
         /\ clientResults' = <<event.result>> \o clientResults
  /\ delivered' = delivered + 1
  /\ UNCHANGED <<groupingVars, error, busy, sent, markerSeen, connection, exported>>

\* The end marker is read: the client skips it.
ReceiveDone ==
  /\ busy
  /\ connection = "open"
  /\ batch = "closed"
  /\ delivered = Len(events)
  /\ ~markerSeen
  /\ markerSeen' = TRUE
  /\ UNCHANGED <<groupingVars, error, clientResults, batchId, shownCompleted,
                 shownTotal,
                 busy, sent, delivered, connection, exported>>

\* The server has ended the response after the end marker: the read loop
\* ends and the verification is over.
StreamEnd ==
  /\ busy
  /\ connection = "open"
  /\ markerSeen
  /\ busy' = FALSE
  /\ connection' = "ended"
  /\ UNCHANGED <<groupingVars, error, clientResults, batchId, shownCompleted,
                 shownTotal,
                 sent, delivered, markerSeen, exported>>

\* The loss of the connection without the finally clause: a failed read
\* leaves the client busy.
ConnectionLostNoFinally(clean) ==
  /\ busy
  /\ connection = "open"
  /\ ~markerSeen
  /\ IF batch = "streaming" THEN Abandon ELSE UNCHANGED vars
  /\ IF clean
     THEN connection' = "ended" /\ busy' = FALSE /\ UNCHANGED error
     ELSE connection' = "reset" /\ error' = "Verification failed" /\ UNCHANGED busy
  /\ UNCHANGED <<groupingVars, clientResults, batchId, shownCompleted,
                 shownTotal,
                 sent, delivered, markerSeen, exported>>

\* The connection ends before the end marker was read, by a close (the read
\* reports the end of the body and the loop ends) or by a failure (the read
\* or the parsing of an event throws and the failure is shown).
ConnectionLost(clean) ==
  /\ busy
  /\ connection = "open"
  /\ ~markerSeen
  /\ IF batch = "streaming" THEN Abandon ELSE UNCHANGED vars
  /\ busy' = FALSE
  /\ IF clean
     THEN connection' = "ended" /\ UNCHANGED error
     ELSE connection' = "reset" /\ error' = "Verification failed"
  /\ UNCHANGED <<groupingVars, clientResults, batchId, shownCompleted,
                 shownTotal,
                 sent, delivered, markerSeen, exported>>

\* GET /verify/batch/{batch_id}/export.csv: the rows of the snapshot of the
\* batch, if one is stored.
ExportOf(snap) ==
  IF snap.stored THEN [status |-> "ok", rows |-> snap.results]
  ELSE [status |-> "not_found", rows |-> <<>>]

\* The export link, shown as soon as a batch id is known, is followed.
ReadExport ==
  /\ batchId # ""
  /\ exported' = ExportOf(snapshot)
  /\ UNCHANGED <<groupingVars, error, clientResults, batchId, shownCompleted,
                 shownTotal,
                 busy, sent, delivered, markerSeen, connection>>

\* removeResult, on a result of the list.
RemoveResult(id) ==
  /\ \E i \in DOMAIN clientResults : clientResults[i].label_id = id
  /\ clientResults' = SelectSeq(clientResults, LAMBDA r : r.label_id # id)
  /\ UNCHANGED <<groupingVars, error, batchId, shownCompleted, shownTotal,
                 busy, sent, delivered, markerSeen, connection, exported>>

\* The index of the groups by label id, and the group shown with a result.
groupByLabelId ==
  [id \in {groups[i].label_id : i \in DOMAIN groups} |->
     groups[CHOOSE i \in DOMAIN groups :
              /\ groups[i].label_id = id
              /\ \A j \in DOMAIN groups : groups[j].label_id = id => j <= i]]

NoGroup == LabelGroup(0, "auto", <<>>)

\* The group at the position of the result in the list.
GroupShownByPosition(shown, idx) ==
  IF idx \in DOMAIN groups THEN groups[idx] ELSE NoGroup

GroupShown(shown, idx) ==
  IF shown.label_id \in DOMAIN groupByLabelId
  THEN groupByLabelId[shown.label_id] ELSE NoGroup

\* --------------------------------------------------- provider responses

\* extract(images, promptVariant) returns the values of the fields asked
\* for, or raises ProviderError.
Returned(values) == [raised |-> FALSE, values |-> values]

Raised(asked) == [raised |-> TRUE, values |-> [f \in asked |-> NoValue]]

\* The beverage type each group of a batch requests.
BatchRequest ==
  [g \in Groups |-> <<"auto", "beer", "spirits", "wine">>[((g - 1) % 4) + 1]]

\* What is on the label of each group.
BatchProduct ==
  [g \in Groups |-> IF BatchRequest[g] = "auto" THEN "wine" ELSE BatchRequest[g]]

CompliantValue(f, t) ==
  CASE f = "brand_name"         -> "OLD TOM"
    [] f = "class_type"         -> KnownDesignation(t)
    [] f = "alcohol_content"    -> "40% Alc./Vol."
    [] f = "net_contents"       -> "750 mL"
    [] f = "name_address"       -> "Bottled by Old Tom Distillery, Bardstown, KY"
    [] f = "government_warning" -> "warning:canonical"
    [] OTHER                    -> NoValue

\* Every required field of the type, compliant.
CleanLabel(t) ==
  [f \in ExtractedNames |-> IF f \in RequiredFields(t) THEN CompliantValue(f, t) ELSE NoValue]

\* The pass-1 answers of the provider in a batch: an error, the clean label,
\* the label with an unreadable field, the label with a wrong warning.
Pass1Responses(g) ==
  LET clean == CleanLabel(BatchProduct[g])
  IN  {Raised(ExtractedNames), Returned(clean),
       Returned([clean EXCEPT !["net_contents"] = NoValue]),
       Returned([clean EXCEPT !["government_warning"] = "warning:lowercase-heading"])}

\* The pass-2 answers: an error, or values for the fields asked for (the
\* missing ones), found or still unreadable.
Pass2Responses(g) ==
  LET asked == MissingFields(requested[g], extracted[g])
  IN  {Raised(asked),
       Returned([f \in asked |-> CompliantValue(f, BatchProduct[g])]),
       Returned([f \in asked |-> NoValue])}

\* ------------------------------------------------------------------ specs

Next ==
  \/ \E n \in 1..(MaxBatch + 1) : Submit(n, BatchRequest) /\ UNCHANGED <<warningVars, clientVars>>
  \/ \E g \in Groups : Acquire(g) /\ UNCHANGED <<warningVars, clientVars>>
  \/ \E g \in Groups, found \in BOOLEAN : LoadImages(g, found) /\ UNCHANGED <<warningVars, clientVars>>
  \/ \E g \in Groups :
       \E r \in Pass1Responses(g) : Pass1Return(g, r, TRUE) /\ UNCHANGED <<warningVars, clientVars>>
  \/ \E g \in Groups :
       \E r \in Pass2Responses(g) : Pass2Return(g, r, TRUE) /\ UNCHANGED <<warningVars, clientVars>>
  \/ Emit /\ UNCHANGED <<warningVars, clientVars>>
  \/ Close /\ UNCHANGED <<warningVars, clientVars>>

Init == NoBatch /\ WarningIdle /\ ClientIdle /\ DecodeIdle

Spec == Init /\ [][Next]_<<vars, warningVars, clientVars>>

\* A step of the running batch: of the streamer or of a work unit.
Progress ==
  \/ Close
  \/ Emit
  \/ \E g \in Groups : Acquire(g)
  \/ \E g \in Groups, found \in BOOLEAN : LoadImages(g, found)
  \/ \E g \in Groups : \E r \in Pass1Responses(g) : Pass1Return(g, r, TRUE)
  \/ \E g \in Groups : \E r \in Pass2Responses(g) : Pass2Return(g, r, TRUE)

\* One label group alone, with every answer of the provider: what the
\* provider can say about a field in pass 1 ...
UnitValues(f) ==
  CASE f = "brand_name"         -> {"OLD TOM"}
    [] f = "class_type"         -> {KnownDesignation("spirits"), KnownDesignation("wine"),
                                    SynonymDesignation, NoValue}
    [] f = "alcohol_content"    -> FieldValues(f) \cup {NoValue}
    [] f = "net_contents"       -> {"750 mL", NoValue, Absent}
    [] f = "name_address"       -> FieldValues(f) \cup {NoValue}
    [] f = "government_warning" -> FieldValues(f) \cup {NoValue}
    [] f = "beverage_type"      -> {"wine", NoValue}
    [] f = "country_of_origin"  -> {NoValue}

UnitPass1Responses ==
  {Raised(ExtractedNames)}
    \cup {Returned([brand_name         |-> b,
                     class_type         |-> c,
                     alcohol_content    |-> a,
                     net_contents       |-> n,
                     name_address       |-> d,
                     government_warning |-> w,
                     beverage_type      |-> t,
                     country_of_origin  |-> o]) :
            o \in UnitValues("country_of_origin"),
            b \in UnitValues("brand_name"),
            c \in UnitValues("class_type"),
            a \in UnitValues("alcohol_content"),
            n \in UnitValues("net_contents"),
            d \in UnitValues("name_address"),
            w \in UnitValues("government_warning"),
            t \in UnitValues("beverage_type")}

\* ... and in pass 2 about the fields it is asked for again.
UnitRetryValues(f, t) ==
  {NoValue, CompliantValue(f, t)}
    \cup (IF f = "class_type" THEN {KnownDesignation("wine")} ELSE {})

UnitPass2Responses(g) ==
  LET asked == MissingFields(requested[g], extracted[g])
      t     == ResolveType(requested[g], extracted[g])
  IN  {Raised(asked)}
        \cup {Returned(v) :
                v \in {w \in [asked -> UNION {UnitRetryValues(f, t) : f \in asked}] :
                         \A f \in asked : w[f] \in UnitRetryValues(f, t)}}

NextUnit ==
  \/ \E t \in RequestTypes : Submit(1, [g \in Groups |-> t]) /\ UNCHANGED <<warningVars, clientVars>>
  \/ Acquire(1) /\ UNCHANGED <<warningVars, clientVars>>
  \/ \E found \in BOOLEAN : LoadImages(1, found) /\ UNCHANGED <<warningVars, clientVars>>
  \/ \E r \in UnitPass1Responses, rulesOk \in BOOLEAN :
       Pass1Return(1, r, rulesOk) /\ UNCHANGED <<warningVars, clientVars>>
  \/ \E r \in UnitPass2Responses(1) : Pass2Return(1, r, TRUE) /\ UNCHANGED <<warningVars, clientVars>>
  \/ Emit /\ UNCHANGED <<warningVars, clientVars>>
  \/ Close /\ UNCHANGED <<warningVars, clientVars>>

SpecUnit == Init /\ [][NextUnit]_<<vars, warningVars, clientVars>>

\* A batch of groups with the same request and the same label, so that
\* their runs can be compared.
TwinSizes == {2, 3}

TwinPass1Responses ==
  LET clean == CleanLabel("spirits")
  IN  {Raised(ExtractedNames), Returned(clean),
       Returned([clean EXCEPT !["net_contents"] = NoValue]),
       Returned([clean EXCEPT !["alcohol_content"] = "40% ABV"])}

TwinPass2Responses(g) ==
  LET asked == MissingFields(requested[g], extracted[g])
  IN  {Raised(asked),
       Returned([f \in asked |-> CompliantValue(f, "spirits")]),
       Returned([f \in asked |-> NoValue])}

NextTwin ==
  \/ \E n \in TwinSizes, t \in RequestTypes :
       Submit(n, [g \in Groups |-> t]) /\ UNCHANGED <<warningVars, clientVars>>
  \/ \E g \in Groups : Acquire(g) /\ UNCHANGED <<warningVars, clientVars>>
  \/ \E g \in Groups, found \in BOOLEAN : LoadImages(g, found) /\ UNCHANGED <<warningVars, clientVars>>
  \/ \E g \in Groups :
       \E r \in TwinPass1Responses : Pass1Return(g, r, TRUE) /\ UNCHANGED <<warningVars, clientVars>>
  \/ \E g \in Groups :
       \E r \in TwinPass2Responses(g) : Pass2Return(g, r, TRUE) /\ UNCHANGED <<warningVars, clientVars>>
  \/ Emit /\ UNCHANGED <<warningVars, clientVars>>
  \/ Close /\ UNCHANGED <<warningVars, clientVars>>

SpecTwin == Init /\ [][NextTwin]_<<vars, warningVars, clientVars>>

\* A batch whose consumer may go away at any moment of the stream.
CancelPass1Responses(g) ==
  LET clean == CleanLabel(BatchProduct[g])
  IN  {Raised(ExtractedNames), Returned(clean),
       Returned([clean EXCEPT !["net_contents"] = NoValue])}

CancelPass2Responses(g) ==
  LET asked == MissingFields(requested[g], extracted[g])
  IN  {Returned([f \in asked |-> NoValue])}

\* A step of the work unit of a group that was admitted.
UnitStep(g) ==
  \/ LoadImages(g, TRUE)
  \/ \E r \in CancelPass1Responses(g) : Pass1Return(g, r, TRUE)
  \/ \E r \in CancelPass2Responses(g) : Pass2Return(g, r, TRUE)

NextCancel ==
  \/ \E n \in 1..MaxBatch : Submit(n, BatchRequest) /\ UNCHANGED <<warningVars, clientVars>>
  \/ \E g \in Groups : Acquire(g) /\ UNCHANGED <<warningVars, clientVars>>
  \/ \E g \in Groups : UnitStep(g) /\ UNCHANGED <<warningVars, clientVars>>
  \/ Emit /\ UNCHANGED <<warningVars, clientVars>>
  \/ Close /\ UNCHANGED <<warningVars, clientVars>>
  \/ Abandon /\ UNCHANGED <<warningVars, clientVars>>
  \/ Discard /\ UNCHANGED <<warningVars, clientVars>>

SpecCancel == Init /\ [][NextCancel]_<<vars, warningVars, clientVars>>

\* One label group alone, of a domestic or an imported product, with or
\* without a statement of the country of origin.
ConditionalPass1Responses ==
  {Returned([brand_name         |-> "OLD TOM",
             class_type         |-> c,
             alcohol_content    |-> a,
             net_contents       |-> n,
             name_address       |-> d,
             government_warning |-> w,
             beverage_type      |-> t,
             country_of_origin  |-> o]) :
     c \in {KnownDesignation("wine"), NoValue},
     a \in FieldValues("alcohol_content"),
     n \in {"750 mL", NoValue, Absent},
     d \in FieldValues("name_address") \cup {ImporterAddress, NoValue},
     w \in FieldValues("government_warning"),
     t \in {"wine", NoValue},
     o \in FieldValues("country_of_origin") \cup {NoValue, Absent}}

NextConditional ==
  \/ \E t \in RequestTypes : Submit(1, [g \in Groups |-> t]) /\ UNCHANGED <<warningVars, clientVars>>
  \/ Acquire(1) /\ UNCHANGED <<warningVars, clientVars>>
  \/ \E found \in BOOLEAN : LoadImages(1, found) /\ UNCHANGED <<warningVars, clientVars>>
  \/ \E r \in ConditionalPass1Responses : Pass1Return(1, r, TRUE) /\ UNCHANGED <<warningVars, clientVars>>
  \/ \E r \in UnitPass2Responses(1) : Pass2Return(1, r, TRUE) /\ UNCHANGED <<warningVars, clientVars>>
  \/ Emit /\ UNCHANGED <<warningVars, clientVars>>
  \/ Close /\ UNCHANGED <<warningVars, clientVars>>

SpecConditional == Init /\ [][NextConditional]_<<vars, warningVars, clientVars>>

\* The provider's answer to each group of the client's batch: a clean wine
\* label.
ClientPass1Responses(g) == {Returned(CleanLabel("wine"))}

\* No verification is running and no batch was abandoned.
Settled == ~busy /\ batch \in {"none", "closed"}

\* A step of the server on the batch of the client.
ServerStep ==
  \/ \E g \in Groups : Acquire(g) /\ UNCHANGED <<warningVars, clientVars>>
  \/ \E g \in Groups : LoadImages(g, TRUE) /\ UNCHANGED <<warningVars, clientVars>>
  \/ \E g \in Groups : \E response \in ClientPass1Responses(g) :
       Pass1Return(g, response, TRUE) /\ UNCHANGED <<warningVars, clientVars>>
  \/ Emit /\ UNCHANGED <<warningVars, clientVars>>
  \/ Close /\ UNCHANGED <<warningVars, clientVars>>

\* A step of the read loop of the client.
ClientRead ==
  \/ ReceiveEvent /\ UNCHANGED <<vars, warningVars, decodeVars>>
  \/ ReceiveDone /\ UNCHANGED <<vars, warningVars, decodeVars>>
  \/ StreamEnd /\ UNCHANGED <<vars, warningVars, decodeVars>>

\* The client and the server of one verification. The user uploads the
\* images of a batch at once, makes one group of each, once, and removes
\* groups and results before the verification and after the batch has
\* closed; the batch is posted, the units run, the stream is read or lost
\* and the export link is followed, in any interleaving.
NextClient ==
  \/ /\ uploaded = <<>>
     /\ UploadFiles(MaxBatch, TRUE)
     /\ UNCHANGED <<vars, warningVars, decodeVars>>
  \/ /\ labelCount = 0
     /\ CreateSinglesFromPool("auto")
     /\ UNCHANGED <<vars, warningVars, decodeVars>>
  \/ \E id \in 1..MaxCreated :
       Settled /\ RemoveGroup(id) /\ UNCHANGED <<vars, warningVars, decodeVars>>
  \/ StartVerification /\ UNCHANGED <<warningVars, decodeVars>>
  \/ batch = "none" /\ VerificationRefused /\ UNCHANGED <<vars, warningVars, decodeVars>>
  \/ ServerStep
  \/ Discard /\ UNCHANGED <<warningVars, clientVars>>
  \/ ClientRead
  \/ \E clean \in BOOLEAN : ConnectionLost(clean) /\ UNCHANGED <<warningVars, decodeVars>>
  \/ ReadExport /\ UNCHANGED <<vars, warningVars, decodeVars>>
  \/ \E id \in 1..MaxCreated :
       Settled /\ RemoveResult(id) /\ UNCHANGED <<vars, warningVars, decodeVars>>

SpecClient == Init /\ [][NextClient]_<<vars, warningVars, clientVars>>

\* The verification of a full batch, from the making of the batch to the
\* end of its stream, with progress: the server goes on with the batch
\* while it can, and the read loop takes what the stream holds.
NextVerification ==
  \/ /\ uploaded = <<>>
     /\ UploadFiles(MaxBatch, TRUE)
     /\ UNCHANGED <<vars, warningVars, decodeVars>>
  \/ /\ labelCount = 0
     /\ CreateSinglesFromPool("auto")
     /\ UNCHANGED <<vars, warningVars, decodeVars>>
  \/ StartVerification /\ UNCHANGED <<warningVars, decodeVars>>
  \/ batch = "none" /\ VerificationRefused /\ UNCHANGED <<vars, warningVars, decodeVars>>
  \/ ServerStep
  \/ Discard /\ UNCHANGED <<warningVars, clientVars>>
  \/ ClientRead
  \/ \E clean \in BOOLEAN : ConnectionLost(clean) /\ UNCHANGED <<warningVars, decodeVars>>

SpecClientLive ==
  /\ Init
  /\ [][NextVerification]_<<vars, warningVars, clientVars>>
  /\ WF_<<vars, warningVars, clientVars>>(ServerStep)
  /\ WF_<<vars, warningVars, clientVars>>(ClientRead)

\* The client before a verification: uploads, selection and grouping.
NextGrouping ==
  \/ \E k \in 1..2, ok \in BOOLEAN :
       UploadFiles(k, ok) /\ UNCHANGED <<vars, warningVars, decodeVars>>
  \/ \E id \in 1..MaxUploads : ToggleSelection(id) /\ UNCHANGED <<vars, warningVars, decodeVars>>
  \/ CreateGroup("wine") /\ UNCHANGED <<vars, warningVars, decodeVars>>
  \/ CreateSinglesFromPool("auto") /\ UNCHANGED <<vars, warningVars, decodeVars>>
  \/ \E id \in 1..MaxCreated : RemoveGroup(id) /\ UNCHANGED <<vars, warningVars, decodeVars>>
  \/ \E id \in 1..MaxUploads :
       RemoveUngroupedImage(id) /\ UNCHANGED <<vars, warningVars, decodeVars>>

SpecGrouping == Init /\ [][NextGrouping]_<<vars, warningVars, clientVars>>

\* The read loop alone, on every stream and under every chunking.
InitDecode ==
  /\ NoBatch
  /\ WarningIdle
  /\ ClientIdle
  /\ wire \in Wires
  /\ readPos = 0
  /\ pending = <<>>
  /\ buffer = <<>>
  /\ applied = <<>>
  /\ readerDone = FALSE

NextDecode ==
  \/ \E k \in 1..MaxText :
       ReadChunk(k) /\ UNCHANGED <<vars, warningVars, groupingVars, error, streamVars>>
  \/ ReadEnd /\ UNCHANGED <<vars, warningVars, groupingVars, error, streamVars>>

SpecDecode == InitDecode /\ [][NextDecode]_<<vars, warningVars, clientVars>>

\* The warning validator alone, on the canonical text and every mutation.
InitWarning ==
  /\ NoBatch
  /\ mutation \in {m \in Mutations : IsMutation(m)}
  /\ warningResult = "unchecked"
  /\ ClientIdle
  /\ DecodeIdle

NextWarning == ValidateWarning /\ UNCHANGED <<vars, clientVars>>

SpecWarning == InitWarning /\ [][NextWarning]_<<vars, warningVars, clientVars>>

\* ------------------------------------------------------------- properties

InFlight == {g \in Groups : unit[g] \in {"loading", "extracting"}}

\* The units that hold an outstanding call into the extraction gateway.
Calling == {g \in Groups : unit[g] = "extracting"}

EventLabels == {events[k].result.label_id : k \in DOMAIN events}

\* C1: the stream of an accepted batch of N groups carries completed = k in
\* its k-th event and total = N in every event, never more than N events,
\* and when it has ended exactly N events, the last with completed = total = N.
C1_StreamCountsToTotal ==
  /\ batch \in {"streaming", "closed"} => total = submitted /\ Accepted(total)
  /\ Len(events) <= total
  /\ \A k \in DOMAIN events : events[k].completed = k /\ events[k].total = total
  /\ batch = "closed" =>
       /\ Len(events) = total
       /\ {events[k].completed : k \in DOMAIN events} = 1..total
       /\ events[Len(events)].completed = total
       /\ events[Len(events)].total = total

\* A full batch whose stream has ended, the first event not the first group's.
C1_Witness ==
  /\ batch = "closed"
  /\ total = MaxBatch
  /\ Len(events) = MaxBatch
  /\ events[1].result.label_id # 1

\* C2: at most Ceiling work units hold an outstanding gateway call, pass-2
\* retries included.
C2_CallsWithinCeiling == Cardinality(Calling) <= Ceiling

\* The ceiling is reached with a pass-2 call among the calls and a unit waiting.
C2_Witness ==
  /\ Cardinality(Calling) = Ceiling
  /\ \E g \in Calling : machine[g] = "Pass2"
  /\ \E g \in Groups : unit[g] = "queued"

HasResult(g) == result[g] # NoResult

\* The first match of the priority order over a list of field results.
FirstMatch(errorOutcome, results, t) ==
  IF errorOutcome THEN "ERROR"
  ELSE IF HasStatus(results, "fail") THEN "FAIL"
  ELSE IF \/ HasStatus(results, "unreadable")
          \/ HasStatus(results, "escalate")
          \/ t = "undetermined"
       THEN "ESCALATE"
       ELSE "PASS"

\* C3: the overall status of every result is the first match of the order:
\* Error outcome -> ERROR, a failing field -> FAIL, an unreadable or
\* escalate-classified field or an undetermined type -> ESCALATE, else PASS.
C3_FirstMatchOfPriorityOrder ==
  \A g \in Groups :
    HasResult(g) /\ failure[g] # "Unhandled" =>
      result[g].overall_status =
        FirstMatch(machine[g] = "Error", result[g].fields, result[g].beverage_type)

\* C4: a ProviderError in either pass gives the group's result the overall
\* status ERROR, never FAIL and never ESCALATE.
C4_ProviderErrorGivesError ==
  \A g \in Groups :
    HasResult(g) /\ failure[g] = "ProviderError" =>
      /\ result[g].overall_status = "ERROR"
      /\ result[g].overall_status \notin {"FAIL", "ESCALATE", "PASS"}

StepEnabled(j) ==
  CASE unit[j] = "queued" ->
         /\ batch = "streaming"
         /\ permits > 0
         /\ \A h \in Groups : h < j => unit[h] # "queued"
    [] unit[j] \in {"loading", "extracting"} -> TRUE
    [] unit[j] = "finished" -> batch = "streaming" /\ Head(finished) = j
    [] OTHER -> FALSE

\* C6: a failure while processing group k leaves every other group j as it
\* is (unit, extraction, result), takes no step away from j, and j's result
\* is that of j's own extraction; every group of a closed stream was emitted.
C6_FailureIsIsolated ==
  /\ [][\A k \in Groups :
          failure[k] = "none" /\ failure'[k] # "none" =>
            \A j \in Groups \ {k} :
              /\ unit'[j] = unit[j]
              /\ machine'[j] = machine[j]
              /\ extracted'[j] = extracted[j]
              /\ result'[j] = result[j]
              /\ StepEnabled(j) => StepEnabled(j)'
       ]_<<vars, warningVars>>
  /\ [](\A j \in Groups :
          HasResult(j) /\ failure[j] = "none" =>
            result[j] = VerifiedResult(j, requested[j], extracted[j]))
  /\ [](batch = "closed" => \A j \in 1..total : unit[j] = "emitted")

\* A group passes although another group of the batch failed before it.
C6_Witness ==
  \E j, k \in Groups :
    /\ j # k
    /\ failure[k] = "ProviderError"
    /\ unit[k] = "emitted"
    /\ unit[j] = "emitted"
    /\ result[j].overall_status = "PASS"
    /\ \E a, b \in DOMAIN events :
         a < b /\ events[a].result.label_id = k /\ events[b].result.label_id = j

\* C7: a group whose pass 1 returned every required field is Complete after
\* the one standard call, and the degraded-image prompt is used only when
\* pass 1 left a required field missing.
C7_RetryOnlyWhenMissing ==
  \A g \in Groups :
    /\ Len(passes[g]) >= 1 /\ passes[g][1].missing = {} =>
         /\ machine[g] = "Complete"
         /\ calls[g] = <<"standard">>
         /\ Len(passes[g]) = 1
    /\ (machine[g] = "Pass2" \/ "degraded-image-specialized" \in Range(calls[g])) =>
         /\ Len(passes[g]) >= 1
         /\ passes[g][1].missing # {}
         /\ calls[g] = <<"standard", "degraded-image-specialized">>

\* One group complete after pass 1 alone, another one in pass 2.
C7_Witness ==
  \E g, h \in Groups :
    /\ machine[g] = "Complete" /\ calls[g] = <<"standard">>
    /\ machine[h] = "Pass2" /\ passes[h][1].missing = {"net_contents"}

\* C9: a submission of more than MaxBatch groups is rejected as a whole: no
\* work unit, no gateway call, no event, nothing of the batch admitted.
C9_OversizedBatchRejected ==
  /\ submitted > MaxBatch => batch = "rejected"
  /\ batch = "rejected" =>
       /\ submitted > MaxBatch
       /\ total = 0
       /\ \A g \in Groups :
            /\ unit[g] = "none"
            /\ machine[g] = "NotStarted"
            /\ calls[g] = <<>>
            /\ ~HasResult(g)
       /\ permits = Ceiling
       /\ finished = <<>>
       /\ events = <<>>

C9_Witness == batch = "rejected" /\ submitted = MaxBatch + 1

\* C10: every group of an accepted batch gets exactly one event, and a
\* failure inside its work unit makes that event's result an ERROR result.
C10_FailureBecomesErrorResult ==
  /\ \A a, b \in DOMAIN events :
       events[a].result.label_id = events[b].result.label_id => a = b
  /\ batch = "closed" => EventLabels = 1..total
  /\ \A k \in DOMAIN events :
       failure[events[k].result.label_id] # "none" =>
         events[k].result.overall_status = "ERROR"

\* A position outside the text, or one that holds a whitespace character.
EdgeOrSpace(p) ==
  \/ p < 1
  \/ p > Len(CanonicalWarning)
  \/ IsSpace(CanonicalWarning[p])

\* The single-character mutations that touch whitespace only: one whitespace
\* character put for another, or a whitespace character added to or taken
\* from a run of whitespace or an end of the text.
WhitespaceOnly(m) ==
  CASE m.kind = "subst"  ->
         IsSpace(CanonicalWarning[m.pos]) /\ IsSpace(SubstChar(m))
    [] m.kind = "insert" ->
         IsSpace(m.ch) /\ (EdgeOrSpace(m.pos - 1) \/ EdgeOrSpace(m.pos))
    [] m.kind = "delete" ->
         /\ IsSpace(CanonicalWarning[m.pos])
         /\ EdgeOrSpace(m.pos - 1) \/ EdgeOrSpace(m.pos + 1)
    [] OTHER -> FALSE

TerminalEmitted ==
  \E k \in DOMAIN events : events[k].completed = events[k].total

\* The steps a work unit and its event still have to take, at most.
StepsLeft(g) ==
  CASE unit[g] = "queued"     -> 5
    [] unit[g] = "loading"    -> 4
    [] unit[g] = "extracting" -> IF machine[g] = "Pass1" THEN 3 ELSE 2
    [] unit[g] = "finished"   -> 1
    [] OTHER                  -> 0

RECURSIVE StepsLeftUpTo(_)
StepsLeftUpTo(n) == IF n = 0 THEN 0 ELSE StepsLeft(n) + StepsLeftUpTo(n - 1)

\* The steps the running batch still has to take before it is closed.
Remaining ==
  StepsLeftUpTo(MaxBatch + 1) + (IF batch = "streaming" THEN 1 ELSE 0)

\* C11: the stream is closed only after the event with completed = total and
\* no event follows that event; while the stream is open a step of a work
\* unit or of the streamer is always possible and every such step brings
\* the close nearer, so that under fair scheduling the terminal event is
\* emitted and the stream closed.
C11_StreamEndsAfterTerminalEvent ==
  /\ [](batch = "closed" =>
          /\ TerminalEmitted
          /\ Len(events) = total
          /\ events[Len(events)].completed = total)
  /\ [][TerminalEmitted => events' = events]_<<vars, warningVars>>
  /\ [](batch = "streaming" => ENABLED Progress)
  /\ [][batch = "streaming" => Remaining' < Remaining]_<<vars, warningVars>>

\* A stream of the largest batch, closed after its last event.
C11_Witness ==
  /\ batch = "closed"
  /\ total = MaxBatch
  /\ events[total].completed = total

\* The group went through extraction and validation, and has its result.
Verified(g) == HasResult(g) /\ failure[g] = "none"

\* An objective defect of a field: absent from the label, or a warning text
\* that differs from the canonical one.
ObjectiveDefect(f, v) ==
  \/ v = Absent
  \/ f = "government_warning" /\ v \in WarningTexts /\ v # "warning:canonical"

\* An ambiguity of a field: still unreadable after the retry, or a value of
\* an escalate-classified pattern.
Ambiguity(f, v, t) ==
  \/ v = NoValue
  \/ f = "alcohol_content" /\ v = "40% ABV"
  \/ f = "class_type" /\ v \notin {NoValue, Absent} /\ v # KnownDesignation(t)

FieldsWithStatus(results, st) ==
  {results[i].field_name : i \in {j \in DOMAIN results : results[j].status = st}}

\* C13: in a Residual outcome each required field still without a value is
\* reported as unreadable with the reason "not found on any image after
\* retry", and when no field fails the label is ESCALATE with an escalation
\* reason that names each of these fields.
C13_ResidualFieldsAreUnreadable ==
  \A g \in Groups :
    Verified(g) /\ machine[g] = "Residual" =>
      LET missing == MissingFields(requested[g], extracted[g])
          results == result[g].fields
      IN  /\ missing # {}
          /\ Len(passes[g]) = 2
          /\ passes[g][2].missing = missing
          /\ FieldsWithStatus(results, "unreadable") = missing
          /\ \A i \in DOMAIN results :
               results[i].status = "unreadable" =>
                 results[i].failure_reason = "not found on any image after retry"
          /\ ~HasStatus(results, "fail") =>
               /\ result[g].overall_status = "ESCALATE"
               /\ missing \subseteq result[g].escalation_reason

\* The beer label whose net contents neither pass finds.
C13_Witness ==
  \E g \in Groups :
    /\ requested[g] = "beer"
    /\ machine[g] = "Residual"
    /\ calls[g] = <<"standard", "degraded-image-specialized">>
    /\ unit[g] = "emitted"
    /\ result[g].overall_status = "ESCALATE"
    /\ FieldsWithStatus(result[g].fields, "unreadable") = {"net_contents"}
    /\ result[g].escalation_reason = {"net_contents"}

\* The escalate-classified patterns: an alcohol content with the abbreviation
\* that is not permitted, a class/type that is an informal synonym.
EscalatePattern(f, v) ==
  \/ f = "alcohol_content" /\ v = "40% ABV"
  \/ f = "class_type" /\ v = SynonymDesignation

NothingToInferFrom(fields) ==
  /\ fields["beverage_type"] \notin BeverageTypes
  /\ \A t \in BeverageTypes : fields["class_type"] # KnownDesignation(t)

\* C16: a verified label of an auto request whose beverage type cannot be
\* inferred is not an error: unless a field fails it is ESCALATE, and its
\* escalation reason says that the beverage type could not be determined.
C16_UndeterminedTypeEscalates ==
  \A g \in Groups :
    Verified(g) /\ requested[g] = "auto" /\ NothingToInferFrom(extracted[g]) =>
      /\ result[g].overall_status # "ERROR"
      /\ result[g].overall_status =
           IF HasStatus(result[g].fields, "fail") THEN "FAIL" ELSE "ESCALATE"
      /\ result[g].overall_status = "ESCALATE" =>
           "beverage type could not be determined" \in result[g].escalation_reason

\* An auto request whose label shows only an informal designation.
C16_Witness ==
  \E g \in Groups :
    /\ requested[g] = "auto"
    /\ Verified(g)
    /\ extracted[g]["beverage_type"] = NoValue
    /\ extracted[g]["class_type"] = SynonymDesignation
    /\ result[g].overall_status = "ESCALATE"
    /\ "beverage type could not be determined" \in result[g].escalation_reason
    /\ unit[g] = "emitted"

Verdict(g) ==
  [overall_status    |-> result[g].overall_status,
   beverage_type     |-> result[g].beverage_type,
   fields            |-> result[g].fields,
   escalation_reason |-> result[g].escalation_reason]

\* C18: the overall status is a function of the resolved beverage type and
\* the field results alone, and the path of a group (state reached, passes
\* invoked, values extracted, verdict) is a function of what the provider
\* answered alone: two groups of a batch with the same request that were
\* given the same answers are in the same state and have the same verdict.
C18_Deterministic ==
  \A j, k \in 1..total :
    /\ ( /\ HasResult(j) /\ HasResult(k)
         /\ result[j].beverage_type = result[k].beverage_type
         /\ result[j].fields = result[k].fields )
         => result[j].overall_status = result[k].overall_status
    /\ ( requested[j] = requested[k] /\ received[j] = received[k] )
         => /\ machine[j] = machine[k]
            /\ calls[j] = calls[k]
            /\ passes[j] = passes[k]
            /\ extracted[j] = extracted[k]
            /\ HasResult(j) = HasResult(k)
            /\ HasResult(j) => Verdict(j) = Verdict(k)

\* C19: completed changes only in a step of the streamer, which takes one
\* finished unit, adds one to the counter and emits the event with the new
\* value in the same step; a work unit that finishes leaves the counter
\* alone. So the k-th event carries completed = k, also when several units
\* wait finished at once, and the event with completed = total is emitted
\* at most once.
C19_CounterOwnedByStreamer ==
  /\ [](/\ completed = Len(events)
        /\ \A k \in DOMAIN events : events[k].completed = k
        /\ Cardinality({k \in DOMAIN events : events[k].completed = events[k].total}) <= 1)
  /\ [][completed' # completed =>
          /\ completed' = completed + 1
          /\ finished # <<>>
          /\ finished' = Tail(finished)
          /\ unit[Head(finished)] = "finished"
          /\ unit' = [unit EXCEPT ![Head(finished)] = "emitted"]
          /\ events' = Append(events, [batch_id  |-> "batch",
                                       completed |-> completed',
                                       total     |-> total,
                                       result    |-> result[Head(finished)]])
          /\ UNCHANGED <<machine, result, permits>>
       ]_<<vars, warningVars>>
  /\ [][(\E g \in Groups : unit[g] # "finished" /\ unit'[g] = "finished") =>
          completed' = completed /\ events' = events
       ]_<<vars, warningVars>>

\* Two units wait finished at once after an event was already counted.
C19_Witness ==
  /\ Len(finished) >= 2
  /\ completed = 1
  /\ events[1].completed = 1

\* C20: once the consumer has abandoned the stream no queued unit is
\* admitted, no event is emitted and nothing is counted; the abandonment
\* itself touches no work unit, every unit in flight can still take its
\* next step and runs on to its end, and a finished unit's result is
\* discarded.
C20_AbandonedStreamAdmitsNothing ==
  /\ [][batch = "abandoned" =>
          /\ batch' = "abandoned"
          /\ events' = events
          /\ completed' = completed
          /\ \A g \in Groups :
               /\ unit[g] = "queued" => unit'[g] = "queued"
               /\ unit[g] \in {"loading", "extracting"} =>
                    unit'[g] \in {"loading", "extracting", "finished"}
               /\ unit[g] = "finished" => unit'[g] \in {"finished", "discarded"}
               /\ unit[g] \in {"emitted", "discarded"} => unit'[g] = unit[g]
       ]_<<vars, warningVars>>
  /\ [][batch = "streaming" /\ batch' = "abandoned" =>
          UNCHANGED <<unit, machine, calls, extracted, result, permits, finished>>
       ]_<<vars, warningVars>>
  /\ [](batch = "abandoned" => \A g \in InFlight : ENABLED UnitStep(g))

\* After the abandonment a unit that was in flight has finished and its
\* result was discarded without an event, while a queued unit still waits
\* although a permit is free.
C20_Witness ==
  /\ batch = "abandoned"
  /\ permits > 0
  /\ \E g, h \in Groups :
       /\ unit[g] = "discarded"
       /\ HasResult(g)
       /\ g \notin EventLabels
       /\ unit[h] = "queued"

\* The groups that wait for admission, and those whose unit is not yet over.
Queued == {g \in Groups : unit[g] = "queued"}

NotCompleted == Queued \cup InFlight

Transitions ==
  {<<"NotStarted", "Pass1">>,
   <<"Pass1", "Complete">>, <<"Pass1", "Pass2">>, <<"Pass1", "Error">>,
   <<"Pass2", "Complete">>, <<"Pass2", "Residual">>, <<"Pass2", "Error">>}

TerminalStates == {"Complete", "Residual", "Error"}

\* The gateway calls a group has made when its state machine is in a state.
CallsIn(state) ==
  CASE state = "NotStarted" -> {<<>>}
    [] state = "Pass1"      -> {<<"standard">>}
    [] state \in {"Pass2", "Residual"} ->
         {<<"standard", "degraded-image-specialized">>}
    [] OTHER                -> {<<"standard">>,
                                <<"standard", "degraded-image-specialized">>}

\* C24: the state machine of a group changes state only along NotStarted ->
\* Pass1 -> {Complete | Pass2 | Error} and Pass2 -> {Complete | Residual |
\* Error}; a gateway call is made on entering Pass1 (standard prompt) and on
\* entering Pass2 (degraded-image prompt) and at no other step, so at most
\* two per group, both after the one load of the group's images; Complete,
\* Residual and Error are terminal: the unit is over and nothing of the
\* extraction changes any more.
C24_OnlyTheNamedTransitions ==
  /\ [][\A g \in Groups :
          /\ machine'[g] # machine[g] => <<machine[g], machine'[g]>> \in Transitions
          /\ calls'[g] # calls[g] =>
               /\ machine'[g] \in {"Pass1", "Pass2"}
               /\ machine'[g] # machine[g]
               /\ calls'[g] = Append(calls[g], IF machine'[g] = "Pass1" THEN "standard"
                                               ELSE "degraded-image-specialized")
          /\ machine[g] \in TerminalStates =>
               /\ machine'[g] = machine[g]
               /\ calls'[g] = calls[g]
               /\ extracted'[g] = extracted[g]
               /\ passes'[g] = passes[g]
               /\ result'[g] = result[g]
       ]_<<vars, warningVars>>
  /\ [](\A g \in Groups :
          /\ Len(calls[g]) <= 2
          /\ calls[g] \in CallsIn(machine[g])
          /\ machine[g] \in {"Pass1", "Pass2"} <=> unit[g] = "extracting"
          /\ machine[g] \in TerminalStates => unit[g] \in {"finished", "emitted"}
          /\ \A i \in DOMAIN received[g] :
               "images" \in DOMAIN received[g][i] <=> i = 1)

\* One group ended in each terminal state, two of them after the second call.
C24_Witness ==
  \E g, h, k \in Groups :
    /\ machine[g] = "Complete" /\ Len(calls[g]) = 2
    /\ machine[h] = "Residual" /\ Len(calls[h]) = 2
    /\ machine[k] = "Error" /\ Len(calls[k]) = 1

\* The answers of the provider to the two calls of a group, as it was given
\* them: after the image load, the answer of pass 1, then that of pass 2.
Pass1Values(g) == received[g][2].values

HadPass2(g) == Len(received[g]) >= 3

Pass2Values(g) == received[g][3].values

\* The value of a field over both passes: that of pass 1, else that of pass 2.
ValueInSomePass(g, f) ==
  IF Pass1Values(g)[f] # NoValue THEN Pass1Values(g)[f]
  ELSE IF HadPass2(g) /\ f \in DOMAIN Pass2Values(g) THEN Pass2Values(g)[f]
       ELSE NoValue

\* C25: pass 2 is asked for exactly the required fields pass 1 returned no
\* value for (at least one); the values of the outcome are those of pass 1
\* and, where pass 1 had none, those of pass 2; the outcome is Complete
\* exactly when every required field has a value in some pass, and else
\* Residual, whose missing-field set is the non-empty set of the required
\* fields without a value in either pass.
C25_OutcomeCombinesBothPasses ==
  \A g \in Groups :
    /\ HadPass2(g) =>
         /\ ~received[g][2].raised
         /\ DOMAIN Pass2Values(g) =
              {f \in RequiredFields(ResolveType(requested[g], Pass1Values(g))) :
                 Pass1Values(g)[f] = NoValue}
         /\ DOMAIN Pass2Values(g) # {}
         /\ DOMAIN Pass2Values(g) = passes[g][1].missing
    /\ machine[g] \in {"Complete", "Residual"} =>
         LET t       == ResolveType(requested[g], extracted[g])
             without == {f \in RequiredFields(t) : ValueInSomePass(g, f) = NoValue}
         IN  /\ \A f \in ExtractedNames : extracted[g][f] = ValueInSomePass(g, f)
             /\ machine[g] = "Complete" <=> without = {}
             /\ machine[g] = "Residual" =>
                  /\ HadPass2(g)
                  /\ without # {}
                  /\ passes[g][Len(passes[g])].missing = without

\* A label whose net contents only pass 2 finds: the outcome is Complete
\* with the alcohol content of pass 1 and the net contents of pass 2.
C25_Witness ==
  \E g \in Groups :
    /\ machine[g] = "Complete"
    /\ HadPass2(g)
    /\ DOMAIN Pass2Values(g) = {"net_contents", "name_address"}
    /\ Pass1Values(g)["alcohol_content"] = "40% ABV"
    /\ extracted[g]["alcohol_content"] = "40% ABV"
    /\ extracted[g]["net_contents"] = "750 mL"
    /\ unit[g] = "emitted"

\* The groups in the order their work units completed: those whose event
\* was emitted, then those that wait for the streamer.
EmissionOrder == [k \in DOMAIN events |-> events[k].result.label_id]

CompletionOrder == EmissionOrder \o finished

\* C26: events are emitted in completion order. The order of completion
\* grows by the unit that completes and changes in no other way, so the
\* events emitted are a prefix of it at every moment; the event of a finished
\* unit can be emitted at once, whatever state the units of the groups
\* submitted before it are in; and the result an event carries is the one
\* the unit finished with.
C26_EmittedInCompletionOrder ==
  /\ [][\/ CompletionOrder' = CompletionOrder
         \/ \E g \in Groups :
              /\ g \in InFlight
              /\ unit'[g] = "finished"
              /\ CompletionOrder' = Append(CompletionOrder, g)
       ]_<<vars, warningVars>>
  /\ [][events' # events =>
          /\ finished # <<>>
          /\ EmissionOrder' = Append(EmissionOrder, Head(finished))
          /\ events'[Len(events')].result = result[Head(finished)]
       ]_<<vars, warningVars>>
  /\ [](batch = "streaming" /\ finished # <<>> => ENABLED Emit)
  /\ [](batch = "closed" => Len(EmissionOrder) = total /\ finished = <<>>)

\* The events of the second and the third group are emitted, in this order,
\* while the unit of the first group is still extracting.
C26_Witness ==
  /\ total >= 3
  /\ Len(events) = 2
  /\ events[1].result.label_id = 2
  /\ events[2].result.label_id = 3
  /\ unit[1] = "extracting"

\* The names of the fields of a list of field results, in their order.
FieldNamesOf(results) == [i \in DOMAIN results |-> results[i].field_name]

\* C28: the result of a group that requested a specific beverage type
\* carries that type, whatever declared type or class/type designation the
\* extraction returned, and the rule table applied is that of the requested
\* type: the retry is decided on its required fields, the field results are
\* those of its fields in the order of its table, each with the verdict of
\* the rule of that type.
C28_RequestedTypeIsUsed ==
  \A g \in Groups :
    HasResult(g) /\ requested[g] \in BeverageTypes =>
      /\ result[g].beverage_type = requested[g]
      /\ \A i \in DOMAIN passes[g] : passes[g][i].missing \subseteq RequiredFields(requested[g])
      /\ Verified(g) =>
           /\ Len(result[g].fields) >= Len(RequiredOrder(requested[g]))
           /\ \A i \in DOMAIN result[g].fields :
                LET f == result[g].fields[i].field_name
                IN  /\ i <= Len(RequiredOrder(requested[g])) =>
                         f = RequiredOrder(requested[g])[i]
                    /\ i > Len(RequiredOrder(requested[g])) =>
                         f \in Range(ConditionalOrder(requested[g]))
                    /\ result[g].fields[i].status =
                         FieldStatus(f, extracted[g][f], requested[g])

\* A beer request for a label that declares itself wine and carries the
\* designation of a wine: the result is a beer result, without a result for
\* the alcohol content and with the designation not that of a beer.
C28_Witness ==
  \E g \in Groups :
    /\ requested[g] = "beer"
    /\ Verified(g)
    /\ extracted[g]["beverage_type"] = "wine"
    /\ extracted[g]["class_type"] = KnownDesignation("wine")
    /\ result[g].beverage_type = "beer"
    /\ FieldNamesOf(result[g].fields) = RequiredOrder("beer")
    /\ "class_type" \in FieldsWithStatus(result[g].fields, "escalate")
    /\ unit[g] = "emitted"

\* The label is that of an imported product: its address is an importer's.
Imported(fields) == fields["name_address"] = ImporterAddress

\* The field result of a field in a list of field results, if it has one.
ResultsOf(results, f) == {results[i] : i \in {j \in DOMAIN results : results[j].field_name = f}}

\* C29: a conditional field (the country of origin, required for imported
\* products) has a field result exactly when its predicate holds on the
\* extracted values and the type is determined; then a label without the
\* field has the field result fail and is FAIL, and a label with the field
\* has the field result pass; when the predicate does not hold the field has
\* no field result, neither fail nor unreadable, and the result of the label
\* is the same whether the field is on the label or not.
C29_ConditionalFieldUnderItsPredicate ==
  \A g \in Groups :
    Verified(g) =>
      LET x == extracted[g]
          t == result[g].beverage_type
      IN  \A f \in ConditionalNames :
            LET rs == ResultsOf(result[g].fields, f)
            IN  /\ Cardinality(rs) <= 1
                /\ rs # {} <=> (Imported(x) /\ t \in BeverageTypes)
                /\ rs # {} /\ x[f] \in {NoValue, Absent} =>
                     /\ \A r \in rs : r.status = "fail"
                     /\ result[g].overall_status = "FAIL"
                /\ rs # {} /\ x[f] \notin {NoValue, Absent} =>
                     \A r \in rs : r.status = "pass"
                /\ ~Imported(x) =>
                     \A v \in FieldValues(f) \cup {NoValue, Absent} :
                       VerifiedResult(g, requested[g], [x EXCEPT ![f] = v]) = result[g]

\* An imported wine without a statement of origin fails on that field
\* alone, every required field passing.
C29_Witness ==
  \E g \in Groups :
    /\ Verified(g)
    /\ Imported(extracted[g])
    /\ extracted[g]["country_of_origin"] = Absent
    /\ FieldsWithStatus(result[g].fields, "fail") = {"country_of_origin"}
    /\ FieldsWithStatus(result[g].fields, "pass") = RequiredFields("wine")
    /\ result[g].overall_status = "FAIL"
    /\ unit[g] = "emitted"

LabelIds(gs) == {gs[i].label_id : i \in DOMAIN gs}

\* C30: whatever the client does with uploads, selection and groups, every
\* label group of the batch has one to three images and the selection holds
\* at most three; a group of the batch is the group that was created under
\* its label id, unchanged, and a step only adds groups with new label ids
\* or removes groups.
C30_GroupsHoldOneToThreeImages ==
  /\ [](/\ \A i \in DOMAIN groups :
             /\ 1 <= Len(groups[i].images)
             /\ Len(groups[i].images) <= 3
        /\ Cardinality(selectedIds) <= 3
        /\ Len(selectedImages) <= 3
        /\ \A i, j \in DOMAIN groups :
             groups[i].label_id = groups[j].label_id => i = j)
  /\ [][\A j \in DOMAIN groups' :
          \/ \E i \in DOMAIN groups : groups'[j] = groups[i]
          \/ groups'[j].label_id \notin 1..labelCount
       ]_<<vars, warningVars, clientVars>>

\* The group of three images that was created second is the only group of
\* the batch, the first one having been removed, and its image is selected
\* again.
C30_Witness ==
  /\ Len(groups) = 1
  /\ groups[1].label_id = 2
  /\ Len(groups[1].images) = 3
  /\ Cardinality(selectedIds) = 1
  /\ Len(poolImages) = 1

\* The label ids of the results on the stream, as the client reads them.
EmittedLabelIds == {OnWire(events[i]).result.label_id : i \in DOMAIN events}

\* C27: the results of a stream carry the label ids of the groups that were
\* sent, each label id in one event only, and all of them once the stream
\* has closed; the client shows with each result it has received the group
\* with the same label id, as it was sent, wherever the result stands in the
\* list, and shows no group only if that group is no longer in the batch.
C27_ResultsAttributedByLabelId ==
  /\ \A i, j \in DOMAIN events :
       OnWire(events[i]).result.label_id = OnWire(events[j]).result.label_id => i = j
  /\ EmittedLabelIds \subseteq LabelIds(sent)
  /\ batch = "closed" => EmittedLabelIds = LabelIds(sent) /\ Len(events) = Len(sent)
  /\ \A idx \in DOMAIN clientResults :
       LET shown == clientResults[idx]
           group == GroupShown(shown, idx)
       IN  /\ shown.label_id \in EmittedLabelIds
           /\ IF shown.label_id \in LabelIds(groups)
              THEN /\ group.label_id = shown.label_id
                   /\ \E k \in DOMAIN sent : sent[k] = group
              ELSE group = NoGroup

\* The batch was sent without the group created first; the result of its
\* second group arrived first; after the stream closed the group of the
\* other result was removed: the first result is shown with its group, now
\* at another position, and the other result without one.
C27_Witness ==
  /\ Len(sent) = 2
  /\ sent[1].label_id = 2
  /\ batch = "closed"
  /\ events[1].result.label_id = 2
  /\ Len(clientResults) = 2
  /\ groups = <<sent[2]>>
  /\ GroupShown(clientResults[2], 2) = sent[2]
  /\ GroupShown(clientResults[1], 1) = NoGroup
  /\ connection = "ended"
  /\ exported = NothingExported

\* C22: the client ends a verification without an error message only when
\* it has read the end marker of the stream; a connection that ends before
\* the marker, by a reset or by a close, does not end the verification as a
\* completed one.
C22_EndMarkerIsTheOnlyCloseSignal ==
  [][(busy /\ ~busy' /\ error' = "") => markerSeen
    ]_<<vars, warningVars, clientVars>>

\* C21: a snapshot is stored only for a batch whose stream has closed; a
\* read of the export finds nothing while the batch is streaming, and what
\* a read has returned is the terminal result of every group of the batch,
\* one row each, never a part of them.
C21_SnapshotReadOnlyAfterTheStream ==
  /\ snapshot.stored => batch = "closed"
  /\ batch = "streaming" => ExportOf(snapshot).status = "not_found"
  /\ exported.status = "ok" =>
       /\ batch = "closed"
       /\ Len(exported.rows) = total
       /\ {exported.rows[k].label_id : k \in DOMAIN exported.rows} = 1..total
       /\ \A k \in DOMAIN exported.rows :
            LET g == exported.rows[k].label_id
            IN  unit[g] = "emitted" /\ exported.rows[k] = result[g]

\* The export link was followed after the stream of a full batch had closed
\* and before the client had read all of its events: the read returned all
\* the results of the batch.
C21_Witness ==
  /\ exported.status = "ok"
  /\ Len(exported.rows) = MaxBatch
  /\ busy
  /\ delivered < Len(events)

\* C31: whatever the client does, the batch holds at most MaxBatch label
\* groups, so that the batch startVerification would post is one the
\* submission interface accepts; a full batch gets no further group, and a
\* step that adds groups adds one (createGroup) or as many as the pool has
\* images and the batch has room (createSinglesFromPool).
C31_BatchHoldsAtMostTheMaximum ==
  /\ [](/\ Len(groups) <= MaxBatch
        /\ Len(groups) > 0 => Accepted(Len(groups)))
  /\ [][/\ Len(groups) >= MaxBatch => Len(groups') <= Len(groups)
        /\ Len(groups') > Len(groups) =>
             Len(groups') - Len(groups) \in
               {1, Min(Len(poolImages), MaxBatch - Len(groups))}
       ]_<<vars, warningVars, clientVars>>

\* The batch is full, an image is still in the pool, and the attempt to
\* make another group of it was refused.
C31_Witness ==
  /\ Len(groups) = MaxBatch
  /\ Len(poolImages) > 0
  /\ error = "Batch already has 100 labels."

\* C32: whatever the client does, no image is in two label groups or twice
\* in one, every image of a group is still uploaded, and every selected
\* image is uploaded and in no group; a step that removes a group leaves
\* its images in the pool.
C32_AnImageIsInOneGroupAtMost ==
  /\ [](/\ \A i, j \in DOMAIN groups :
             i # j => Range(groups[i].images) \cap Range(groups[j].images) = {}
        /\ \A i \in DOMAIN groups :
             Cardinality(Range(groups[i].images)) = Len(groups[i].images)
        /\ GroupedIds \subseteq Range(uploaded)
        /\ selectedIds \subseteq Range(uploaded) \ GroupedIds)
  /\ [][\A i \in DOMAIN groups :
          groups[i].label_id \notin LabelIds(groups') =>
            Range(groups[i].images) \subseteq Range(poolImages')
       ]_<<vars, warningVars, clientVars>>

\* A second group was made of images 2 and 3 and removed again: both are
\* back in the pool and selected, next to the group of image 1.
C32_Witness ==
  /\ uploaded = <<1, 2, 3>>
  /\ labelCount = 2
  /\ groups = <<LabelGroup(1, "wine", <<1>>)>>
  /\ poolImages = <<2, 3>>
  /\ selectedIds = {2, 3}

CompleteEvents(p) == Min(wire.events, p \div Len(Frame(1, wire.named)))

\* C34: however the bytes of a stream are cut into chunks, the events the
\* read loop has applied after any number of reads are those the bytes read
\* so far yield when they are decoded in one piece, and they are the events
\* sent completely within those bytes, each once and in the order sent; when
\* the loop has ended, every event the stream sent completely, the last one
\* included, has been applied.
C34_DecodingIgnoresChunking ==
  /\ applied = EventsOf(Complete(Blocks(Decoded(SubSeq(wire.text, 1, readPos)))))
  /\ buffer = Remainder(Blocks(Decoded(SubSeq(wire.text, 1, readPos))))
  /\ applied = [i \in 1..CompleteEvents(readPos) |-> i]
  /\ readerDone => applied = [i \in 1..CompleteEvents(Len(wire.text)) |-> i]
  /\ (readerDone /\ wire.text = FullText(wire.events, wire.named)) =>
       applied = [i \in 1..wire.events |-> i]

\* The first event was applied and a chunk has ended between the two line
\* feeds that end the second.
C34_Witness ==
  /\ wire.text = FullText(MaxBatch, FALSE)
  /\ applied = <<1>>
  /\ buffer = <<DataPrefix>> \o JsonText(2) \o <<LF>>

====
